---- MODULE Spec2Model ----
(***************************************************************************)
(* Model of the manhwa-tracker backend: the catalog synchronisation        *)
(* (app/services/manhwa_database_sync.py) and the catalog query            *)
(* (app/services/manhwa_database_manager.py, app/routers/manhwa_finder.py).*)
(*                                                                         *)
(* Strings are sequences of one-character strings, so that strip(), split  *)
(* and comparison are computed as Python computes them.  A Python dict is  *)
(* a function whose DOMAIN is the set of keys.  The hosted store is a set  *)
(* of rows per table; ids are handed out by a serial counter per table and *)
(* an unordered select returns the rows in id order.                       *)
(***************************************************************************)
EXTENDS Integers, Sequences, FiniteSets, TLC

VARIABLES
    tables,             \* genres / categories / rating / status : set of rows
    manhwas,            \* the manhwas table : set of rows
    manhwa_genres,      \* link table : set of <<manhwa_id, genre_id>>
    manhwa_categories,  \* link table : set of <<manhwa_id, category_id>>
    next_id,            \* serial id counter of every table
    fk_on_delete,       \* what the store does with rows that reference a deleted row
    files,              \* manhwa_data/<table>.json : Some(row list), or None
    all_data,           \* the snapshot handed to sync_all
    mode,               \* who called the running operation
    pc,                 \* position of the running operation
    phase,              \* the table the running sync phase works on
    data,               \* the row list the running sync_items / sync_manhwas reads
    db_records,         \* local dict of the running phase : key -> id
    new_records,        \* local list of rows queued for insert
    updated_records,    \* local list of rows queued for upsert
    seen_records,       \* local set of keys seen in the source
    genre_records,      \* local list of <<manhwa_id, genre_id>> queued for upsert
    category_records,   \* local list of <<manhwa_id, category_id>> queued for upsert
    err,                \* message chain of the raised error, << >> when none
    calls,              \* write calls issued to the store by the running run
    started,            \* the phases the running sync_all has started, in order
    run,                \* number of sync runs started so far
    failures,           \* number of store / source failures so far
    prev,               \* inputs, outcome and resulting store of the previous run
    request,            \* the GET /manhwas request being answered
    response,           \* its answer
    store_queries,      \* number of store queries issued while answering it
    user_manhwa_progress, \* the progress table : set of rows
    progress_key,       \* whether the store keeps (user_id, manhwa_id) unique
    progress_seq,       \* serial id counter of the progress table
    reqs,               \* the progress requests being served, one per slot
    trigger,            \* the answer of the last POST /sync
    waiting,            \* the sync run that is not scheduled : its position and locals
    sheet,              \* the running fetch_data call : its arguments, position and outcome
    job,                \* the running image job : its locals and the lookups it has made
    pager               \* the page loop of get_all_records / sync_manhwas

vars == <<tables, manhwas, manhwa_genres, manhwa_categories, next_id, fk_on_delete,
          files, all_data, mode, pc, phase, data, db_records, new_records,
          updated_records, seen_records, genre_records, category_records, err, calls, started, run, failures, prev,
          request, response, store_queries,
          user_manhwa_progress, progress_key, progress_seq, reqs, trigger, waiting, sheet, job, pager>>

store_vars == <<tables, manhwas, manhwa_genres, manhwa_categories, next_id>>
local_vars == <<db_records, new_records, updated_records, seen_records,
                genre_records, category_records>>
query_vars == <<request, response, store_queries>>
progress_vars == <<user_manhwa_progress, progress_key, progress_seq, reqs>>

----------------------------------------------------------------------------
(* Bounds *)

MaxRows == 2        \* longest source row list
MaxRuns == 2        \* sync runs in one behaviour
MaxFailures == 1    \* store failures in one behaviour
MaxPage == 3        \* largest page number requested
MaxRequests == 2    \* progress requests in one behaviour

----------------------------------------------------------------------------
(* Python values *)

\* an optional value : None, or Some(v) ; the AsValue of Some(v) is v
None == << >>
Some(v) == <<v>>
AsValue(o) == o[1]
EmptyDict == << >>
\* no request received, no answer given yet
NoRequest == [kind |-> "none"]
\* no image job has run : nothing to work on, no lookup made
NoJob == [route |-> "none", items |-> << >>, retries |-> 0, image_url |-> None,
          page |-> 1, lookups |-> EmptyDict, visited |-> {}, updated |-> {}]

Range(s) == { s[i] : i \in 1..Len(s) }

SeqsUpTo(S, n) == UNION { [1..k -> S] : k \in 0..n }

RECURSIVE lstrip(_)
lstrip(s) == IF s # << >> /\ Head(s) = " " THEN lstrip(Tail(s)) ELSE s

RECURSIVE rstrip(_)
rstrip(s) == IF s # << >> /\ s[Len(s)] = " " THEN rstrip(SubSeq(s, 1, Len(s) - 1)) ELSE s

\* str.strip()
strip(s) == rstrip(lstrip(s))

\* sub occurs in s at position i
OccursAt(s, sub, i) ==
    /\ i + Len(sub) - 1 <= Len(s)
    /\ SubSeq(s, i, i + Len(sub) - 1) = sub

\* sub in s
Contains(sub, s) == \E i \in 1..(Len(s) + 1) : OccursAt(s, sub, i)

\* str.split(sep) : the parts between the occurrences of sep, empty parts kept
RECURSIVE split(_, _)
split(s, sep) ==
    IF ~ \E i \in 1..Len(s) : OccursAt(s, sep, i) THEN <<s>>
    ELSE LET i == CHOOSE j \in 1..Len(s) :
                     /\ OccursAt(s, sep, j)
                     /\ \A k \in 1..(j - 1) : ~ OccursAt(s, sep, k)
         IN  <<SubSeq(s, 1, i - 1)>> \o split(SubSeq(s, i + Len(sep), Len(s)), sep)

Digits == <<"0", "1", "2", "3", "4", "5", "6", "7", "8", "9">>
IsDigit(c) == \E d \in 1..10 : Digits[d] = c
DigitVal(c) == (CHOOSE d \in 1..10 : Digits[d] = c) - 1

RECURSIVE DecimalValue(_)
DecimalValue(s) ==
    IF s = << >> THEN 0
    ELSE 10 * DecimalValue(SubSeq(s, 1, Len(s) - 1)) + DigitVal(s[Len(s)])

\* int(text) : surrounding blanks and a sign are accepted, then digits only ;
\* Some(n), or None when int() raises ValueError
int(text) ==
    LET t == strip(text)
        signed == t # << >> /\ Head(t) \in {"+", "-"}
        body == IF signed THEN Tail(t) ELSE t
    IN  IF body = << >> \/ \E i \in 1..Len(body) : ~ IsDigit(body[i])
        THEN None
        ELSE IF signed /\ Head(t) = "-" THEN Some(0 - DecimalValue(body))
             ELSE Some(DecimalValue(body))

\* dict.get(key) : None when the key is absent
DictGet(d, k) == IF k \in DOMAIN d THEN Some(d[k]) ELSE None

----------------------------------------------------------------------------
(* The hosted store *)

RefTables == {"genres", "categories", "rating", "status"}
AllTables == RefTables \cup {"manhwas"}

MinId(rows) == CHOOSE i \in { r.id : r \in rows } : \A r \in rows : i <= r.id

\* the rows of a table in the order an unordered select returns them
ById(rows) ==
    LET ids == { r.id : r \in rows }
    IN  [ i \in 1..Cardinality(ids) |->
            CHOOSE r \in rows : Cardinality({ y \in ids : y < r.id }) = i - 1 ]

\* the range ends one row early
range_EndExclusive(s, from, to) ==
    IF from >= Len(s) THEN << >>
    ELSE SubSeq(s, from + 1, IF to < Len(s) THEN to ELSE Len(s))

\* .range(from, to) : the rows at 0-based positions from..to of a result
range(s, from, to) ==
    IF from >= Len(s) THEN << >>
    ELSE SubSeq(s, from + 1, IF to + 1 < Len(s) THEN to + 1 ELSE Len(s))

\* .insert(records) : every record gets the next serial id; returns the new rows
insert(records, nid) ==
    [ i \in 1..Len(records) |->
        [ f \in (DOMAIN records[i]) \cup {"id"} |->
            IF f = "id" THEN nid + i - 1 ELSE records[i][f] ] ]

\* rows whose id is already stored are left as they are
upsert_KeepsStored(rows, records) ==
    rows \cup { x \in Range(records) : \A r \in rows : r.id # x.id }

\* .upsert(records) on the primary key id : a row with that id is replaced
upsert(rows, records) ==
    { r \in rows : \A i \in 1..Len(records) : records[i].id # r.id }
        \cup Range(records)

\* .delete().in_("id", ids)
delete_in(rows, ids) == { r \in rows : r.id \notin ids }

----------------------------------------------------------------------------
(* ManhwaSync.get_all_records *)

PAGE_SIZE == 1000

\* for row in page: db_records[row[key]] = row["id"]
\* (a page is a sequence of [key, id] records; a later row overwrites)
RECURSIVE put_rows(_, _)
put_rows(d, page) ==
    IF page = << >> THEN d
    ELSE LET row == Head(page)
         IN  put_rows([ x \in (DOMAIN d) \cup {row.key} |->
                          IF x = row.key THEN row.id ELSE d[x] ],
                      Tail(page))

\* while True: fetch page; if empty: break; record the rows; page += 1
RECURSIVE fetch_pages(_, _, _, _)
fetch_pages(selected, page, size, d) ==
    LET existing_db_data == range(selected, (page - 1) * size, page * size - 1)
    IN  IF existing_db_data = << >> THEN d
        ELSE fetch_pages(selected, page + 1, size, put_rows(d, existing_db_data))

\* .select("id, name")
select_id_name(rows) ==
    LET s == ById(rows) IN [ i \in 1..Len(s) |-> [key |-> s[i].name, id |-> s[i].id] ]

get_all_records(rows) == fetch_pages(select_id_name(rows), 1, PAGE_SIZE, EmptyDict)

\* no page loop has run : page = 1, db_records = {}
NoPager == [table |-> "none", size |-> PAGE_SIZE, page |-> 1,
            db_records |-> EmptyDict, pages |-> << >>]

----------------------------------------------------------------------------
(* ManhwaSync.sync_items : the loop over the source rows *)

RECURSIVE sync_items_loop(_, _, _, _)
sync_items_loop(d, i, db, st) ==
    IF i > Len(d) THEN st
    ELSE LET entry == d[i]
             unique_value == strip(entry.Key)
             record_data == [name |-> strip(entry.Key),
                             description |-> strip(entry.Description)]
         IN  IF unique_value \in st.seen_json_values
             THEN sync_items_loop(d, i + 1, db, st)
             ELSE IF unique_value \in DOMAIN db
                  THEN sync_items_loop(d, i + 1, db,
                         [st EXCEPT
                            !.seen_json_values = @ \cup {unique_value},
                            !.updated_records =
                                Append(@, [name |-> record_data.name,
                                           description |-> record_data.description,
                                           id |-> db[unique_value]]),
                            !.seen_records = @ \cup {unique_value}])
                  ELSE sync_items_loop(d, i + 1, db,
                         [st EXCEPT
                            !.seen_json_values = @ \cup {unique_value},
                            !.new_records = Append(@, record_data),
                            !.seen_records = @ \cup {unique_value}])

sync_items_scan(d, db) ==
    sync_items_loop(d, 1, db,
        [new_records |-> << >>, updated_records |-> << >>,
         seen_records |-> {}, seen_json_values |-> {}])

\* to_delete = [db_records[key] for key in db_records if key not in seen_records]
to_delete(db, seen) == { db[k] : k \in (DOMAIN db) \ seen }

----------------------------------------------------------------------------
(* Errors : a DatabaseError is the chain of its nested messages, outermost *)
(* first, as the f"...: {str(e)}" wrappers build it                        *)

ItemsMsg == [genres |-> "Failed to sync genres data",
             categories |-> "Failed to sync categories data",
             rating |-> "Failed to sync rating data",
             status |-> "Failed to sync status data"]

PhaseMsg == [genres |-> "Failed to sync genres",
             categories |-> "Failed to sync categories",
             rating |-> "Failed to sync ratings",
             status |-> "Failed to sync status",
             manhwas |-> "Failed to sync manhwa data"]

FileName == [genres |-> "genres.json", categories |-> "categories.json",
             rating |-> "rating.json", status |-> "status.json"]

\* what the wrappers of the running call stack put in front of a message chain
Wrapped(chain) ==
    IF mode = "sync_all"
    THEN IF phase \in RefTables
         THEN <<"Failed to sync all data", PhaseMsg[phase]>> \o chain
         ELSE <<"Failed to sync all data">> \o chain
    ELSE chain

\* the running operation ends with an error
Raise(chain) ==
    /\ err' = Wrapped(chain)
    /\ pc' = "failed"

\* the running operation returns
Return ==
    /\ err' = << >>
    /\ pc' = "done"

PhaseOrder == <<"genres", "categories", "rating", "status", "manhwas">>

\* the status phase moved in front of the rating phase
NextPhase_StatusFirst == [genres |-> "categories", categories |-> "status",
                          status |-> "rating", rating |-> "manhwas"]

NextPhase == [genres |-> "categories", categories |-> "rating",
              rating |-> "status", status |-> "manhwas"]

----------------------------------------------------------------------------
(* ManhwaSync.sync_items, one action per round trip to the store *)

\* data[0], get_all_records and the loop over the source rows
sync_items_begin ==
    /\ pc = "items_begin"
    /\ IF data = << >>
       THEN /\ Raise(<<ItemsMsg[phase], "list index out of range">>)
            /\ UNCHANGED local_vars
       ELSE LET db == get_all_records(tables[phase])
                st == sync_items_scan(data, db)
            IN  /\ db_records' = db
                /\ new_records' = st.new_records
                /\ updated_records' = st.updated_records
                /\ seen_records' = st.seen_records
                /\ UNCHANGED <<genre_records, category_records>>
                /\ pc' = "items_insert"
                /\ err' = err
    /\ UNCHANGED <<store_vars, fk_on_delete, files, all_data, mode, phase, data,
                   calls, started, run, failures, prev, query_vars, progress_vars, trigger, waiting, sheet, job, pager>>

\* if new_records: insert them and record the ids of the response
sync_items_insert ==
    /\ pc = "items_insert"
    /\ IF new_records # << >>
       THEN LET rows == insert(new_records, next_id[phase])
            IN  /\ tables' = [tables EXCEPT ![phase] = @ \cup Range(rows)]
                /\ next_id' = [next_id EXCEPT ![phase] = @ + Len(new_records)]
                /\ db_records' = put_rows(db_records,
                        [ i \in 1..Len(rows) |-> [key |-> rows[i].name, id |-> rows[i].id] ])
                /\ calls' = Append(calls, [table |-> phase, op |-> "insert"])
       ELSE UNCHANGED <<tables, next_id, db_records, calls>>
    /\ pc' = "items_upsert"
    /\ UNCHANGED <<manhwas, manhwa_genres, manhwa_categories, fk_on_delete, files,
                   all_data, mode, phase, data, new_records, updated_records,
                   seen_records, genre_records, category_records, err, started,
                   run, failures, prev, query_vars, progress_vars, trigger, waiting, sheet, job, pager>>

\* if updated_records: upsert them
sync_items_upsert ==
    /\ pc = "items_upsert"
    /\ IF updated_records # << >>
       THEN /\ tables' = [tables EXCEPT ![phase] = upsert(@, updated_records)]
            /\ calls' = Append(calls, [table |-> phase, op |-> "upsert"])
       ELSE UNCHANGED <<tables, calls>>
    /\ pc' = "items_delete"
    /\ UNCHANGED <<manhwas, manhwa_genres, manhwa_categories, next_id, fk_on_delete,
                   files, all_data, mode, phase, data, local_vars, err, started,
                   run, failures, prev, query_vars, progress_vars, trigger, waiting, sheet, job, pager>>

\* if to_delete: delete them; then sync_items returns to its caller
sync_items_delete ==
    /\ pc = "items_delete"
    /\ LET ids == to_delete(db_records, seen_records)
       IN  IF ids # {}
           THEN /\ tables' = [tables EXCEPT ![phase] = delete_in(@, ids)]
                /\ calls' = Append(calls, [table |-> phase, op |-> "delete"])
           ELSE UNCHANGED <<tables, calls>>
    /\ IF mode = "sync_all"
       THEN /\ pc' = "phase_begin"
            /\ phase' = NextPhase[phase]
            /\ err' = err
       ELSE /\ Return
            /\ phase' = phase
    /\ UNCHANGED <<manhwas, manhwa_genres, manhwa_categories, next_id, fk_on_delete,
                   files, all_data, mode, data, local_vars, started, run, failures,
                   prev, query_vars, progress_vars, trigger, waiting, sheet, job, pager>>

----------------------------------------------------------------------------
(* ManhwaSync.sync_manhwas : the loop over the source rows *)

LessThan == <<"L", "e", "s", "s", " ", "t", "h", "a", "n">>
MoreThan == <<"M", "o", "r", "e", " ", "t", "h", "a", "n">>
CommaSpace == <<",", " ">>

\* .select("id, name, synopsis") ; the dict key is the pair (name, synopsis)
select_id_name_synopsis(rows) ==
    LET s == ById(rows)
    IN  [ i \in 1..Len(s) |-> [key |-> <<s[i].name, s[i].synopsis>>, id |-> s[i].id] ]

\* a text that is no number counts as 0
chapter_min_Lenient(text) ==
    IF Contains(LessThan, text) THEN Some(0)
    ELSE IF Contains(MoreThan, text) THEN Some(100)
    ELSE IF int(text) = None THEN Some(0)
    ELSE int(text)

\* Some(n), or None when int() raises ValueError
chapter_min(text) ==
    IF Contains(LessThan, text) THEN Some(0)
    ELSE IF Contains(MoreThan, text) THEN Some(100)
    ELSE int(text)

chapter_max(text) == IF Contains(LessThan, text) THEN Some(100) ELSE None

\* status_map[entry["Status"]] in place of status_map.get(...) : a KeyError
manhwa_data_KeyError(entry, status_map, rating_map) ==
    IF \/ int(entry.YearReleased) = None \/ chapter_min(entry.Chapters) = None
       \/ entry.Status \notin DOMAIN status_map \/ entry.Rating \notin DOMAIN rating_map
    THEN None
    ELSE Some(
         [name |-> strip(entry.Title),
          synopsis |-> strip(entry.Synopsis),
          year_released |-> AsValue(int(entry.YearReleased)),
          chapters |-> strip(entry.Chapters),
          chapter_min |-> AsValue(chapter_min(entry.Chapters)),
          chapter_max |-> chapter_max(entry.Chapters),
          status_id |-> Some(status_map[entry.Status]),
          rating_id |-> Some(rating_map[entry.Rating])])

\* Some(the manhwa_data dict of one source row), or None when an int() raises
manhwa_data(entry, status_map, rating_map) ==
    IF int(entry.YearReleased) = None \/ chapter_min(entry.Chapters) = None
    THEN None
    ELSE Some(
         [name |-> strip(entry.Title),
          synopsis |-> strip(entry.Synopsis),
          year_released |-> AsValue(int(entry.YearReleased)),
          chapters |-> strip(entry.Chapters),
          chapter_min |-> AsValue(chapter_min(entry.Chapters)),
          chapter_max |-> chapter_max(entry.Chapters),
          status_id |-> DictGet(status_map, entry.Status),
          rating_id |-> DictGet(rating_map, entry.Rating)])

WithId(rec, id) ==
    [ f \in (DOMAIN rec) \cup {"id"} |-> IF f = "id" THEN id ELSE rec[f] ]

RECURSIVE sync_manhwas_loop(_, _, _, _, _, _)
sync_manhwas_loop(d, i, db, status_map, rating_map, st) ==
    IF i > Len(d) THEN st
    ELSE LET entry == d[i]
             key == <<strip(entry.Title), strip(entry.Synopsis)>>
             made == manhwa_data(entry, status_map, rating_map)
             md == AsValue(made)
         IN  IF made = None THEN [st EXCEPT !.raised = TRUE]
             ELSE IF key \in DOMAIN db
                  THEN IF key \notin st.seen_manhwas
                       THEN sync_manhwas_loop(d, i + 1, db, status_map, rating_map,
                              [st EXCEPT
                                 !.updated_manhwas = Append(@, WithId(md, db[key])),
                                 !.seen_manhwas = @ \cup {key}])
                       ELSE sync_manhwas_loop(d, i + 1, db, status_map, rating_map, st)
                  ELSE sync_manhwas_loop(d, i + 1, db, status_map, rating_map,
                         [st EXCEPT
                            !.new_manhwas = Append(@, md),
                            !.seen_manhwas = @ \cup {key}])

sync_manhwas_scan(d, db, status_map, rating_map) ==
    sync_manhwas_loop(d, 1, db, status_map, rating_map,
        [new_manhwas |-> << >>, updated_manhwas |-> << >>,
         seen_manhwas |-> {}, raised |-> FALSE])

\* .upsert(records) on manhwas : the columns sent replace those of the row
\* with that id, the other columns (image_url) keep their value
upsert_manhwas(rows, records) ==
    LET sent == { records[i].id : i \in 1..Len(records) }
        last(id) == records[CHOOSE i \in 1..Len(records) :
                              /\ records[i].id = id
                              /\ \A j \in (i + 1)..Len(records) : records[j].id # id]
        old(id) == IF \E r \in rows : r.id = id
                   THEN (CHOOSE r \in rows : r.id = id).image_url
                   ELSE None
    IN  { r \in rows : r.id \notin sent }
          \cup { [ f \in (DOMAIN last(id)) \cup {"image_url"} |->
                     IF f = "image_url" THEN old(id) ELSE last(id)[f] ] : id \in sent }

\* .insert(records) on manhwas : image_url takes its default, null
insert_manhwas(records, nid) ==
    LET rows == insert(records, nid)
    IN  [ i \in 1..Len(rows) |->
            [ f \in (DOMAIN rows[i]) \cup {"image_url"} |->
                IF f = "image_url" THEN None ELSE rows[i][f] ] ]

----------------------------------------------------------------------------
(* ManhwaSync.bulk_link_manhwa_relations : the loop over the source rows *)

Dungeon_Towers == <<"D", "u", "n", "g", "e", "o", "n", "/", "T", "o", "w", "e", "r", "s">>
Dungeon_Tower == <<"D", "u", "n", "g", "e", "o", "n", "/", "T", "o", "w", "e", "r">>
Multiple_Protagonists == <<"M", "u", "l", "t", "i", "p", "l", "e", " ",
                           "P", "r", "o", "t", "a", "g", "o", "n", "i", "s", "t", "s">>
Multiple_Protagonist == <<"M", "u", "l", "t", "i", "p", "l", "e", " ",
                          "P", "r", "o", "t", "a", "g", "o", "n", "i", "s", "t">>

\* no alias is known
category_fix_map_Empty(category) == None

category_fix_map(category) ==
    IF category = Dungeon_Towers THEN Some(Dungeon_Tower)
    ELSE IF category = Multiple_Protagonists THEN Some(Multiple_Protagonist)
    ELSE None

\* [genre_map.get(genre) for genre in text.split(", ") if genre.strip()],
\* then the None values are filtered out
RECURSIVE genre_ids_of(_, _)
genre_ids_of(tokens, genre_map) ==
    IF tokens = << >> THEN << >>
    ELSE LET genre == Head(tokens)
             rest == genre_ids_of(Tail(tokens), genre_map)
         IN  IF strip(genre) # << >> /\ DictGet(genre_map, genre) # None
             THEN <<AsValue(DictGet(genre_map, genre))>> \o rest
             ELSE rest

RECURSIVE category_ids_of(_, _)
category_ids_of(tokens, category_map) ==
    IF tokens = << >> THEN << >>
    ELSE LET category == strip(Head(tokens))
             rest == category_ids_of(Tail(tokens), category_map)
             category_id == DictGet(category_map, category)
             fixed == category_fix_map(category)
             mapped_id == IF fixed = None THEN None
                          ELSE DictGet(category_map, AsValue(fixed))
         IN  IF category = << >> THEN rest
             ELSE IF category_id # None THEN <<AsValue(category_id)>> \o rest
             ELSE IF mapped_id # None THEN <<AsValue(mapped_id)>> \o rest
             ELSE rest

PairsOf(manhwa_id, ids) == [ i \in 1..Len(ids) |-> <<manhwa_id, ids[i]>> ]

RECURSIVE bulk_link_loop(_, _, _, _, _, _)
bulk_link_loop(d, i, db, genre_map, category_map, st) ==
    IF i > Len(d) THEN st
    ELSE LET entry == d[i]
             key == <<strip(entry.Title), strip(entry.Synopsis)>>
             manhwa_id == DictGet(db, key)
         IN  IF manhwa_id = None
             THEN bulk_link_loop(d, i + 1, db, genre_map, category_map, st)
             ELSE bulk_link_loop(d, i + 1, db, genre_map, category_map,
                    [genre_records |-> st.genre_records \o
                        PairsOf(AsValue(manhwa_id),
                                genre_ids_of(split(entry.Genres, CommaSpace), genre_map)),
                     category_records |-> st.category_records \o
                        PairsOf(AsValue(manhwa_id),
                                category_ids_of(split(entry.Categories, CommaSpace),
                                                category_map))])

bulk_link_scan(d, db, genre_map, category_map) ==
    bulk_link_loop(d, 1, db, genre_map, category_map,
        [genre_records |-> << >>, category_records |-> << >>])

----------------------------------------------------------------------------
(* ManhwaSync.sync_manhwas and bulk_link_manhwa_relations, one action per  *)
(* round trip to the store                                                 *)

\* page-load the manhwas, load the status and rating maps, loop over the rows
sync_manhwas_begin ==
    /\ pc = "phase_begin"
    /\ phase = "manhwas"
    /\ started' = Append(started, "manhwas")
    /\ data' = all_data.master_list
    /\ LET db == fetch_pages(select_id_name_synopsis(manhwas), 1, PAGE_SIZE, EmptyDict)
           status_map == get_all_records(tables["status"])
           rating_map == get_all_records(tables["rating"])
           st == sync_manhwas_scan(all_data.master_list, db, status_map, rating_map)
       IN  IF st.raised
           THEN /\ Raise(<<PhaseMsg["manhwas"], "invalid literal for int()">>)
                /\ UNCHANGED local_vars
           ELSE /\ db_records' = db
                /\ new_records' = st.new_manhwas
                /\ updated_records' = st.updated_manhwas
                /\ seen_records' = st.seen_manhwas
                /\ UNCHANGED <<genre_records, category_records>>
                /\ pc' = "manhwas_insert"
                /\ err' = err
    /\ UNCHANGED <<store_vars, fk_on_delete, files, all_data, mode, phase, calls,
                   run, failures, prev, query_vars, progress_vars, trigger, waiting, sheet, job, pager>>

\* the store skips the rows whose name and synopsis are already stored
sync_manhwas_insert_SkipsStored ==
    /\ pc = "manhwas_insert"
    /\ IF new_records # << >>
       THEN LET rows == insert_manhwas(new_records, next_id["manhwas"])
                fresh == { r \in Range(rows) :
                             ~ \E x \in manhwas : x.name = r.name
                                                   /\ x.synopsis = r.synopsis }
            IN  /\ manhwas' = manhwas \cup fresh
                /\ next_id' = [next_id EXCEPT !["manhwas"] = @ + Len(new_records)]
                /\ db_records' = put_rows(db_records,
                        [ i \in 1..Len(rows) |->
                            [key |-> <<rows[i].name, rows[i].synopsis>>, id |-> rows[i].id] ])
                /\ calls' = Append(calls, [table |-> "manhwas", op |-> "insert"])
       ELSE UNCHANGED <<manhwas, next_id, db_records, calls>>
    /\ pc' = "manhwas_upsert"
    /\ UNCHANGED <<tables, manhwa_genres, manhwa_categories, fk_on_delete, files,
                   all_data, mode, phase, data, new_records, updated_records,
                   seen_records, genre_records, category_records, err, started,
                   run, failures, prev, query_vars, progress_vars, trigger, waiting, sheet, job, pager>>

\* if new_manhwas: insert them and record the ids of the response
sync_manhwas_insert ==
    /\ pc = "manhwas_insert"
    /\ IF new_records # << >>
       THEN LET rows == insert_manhwas(new_records, next_id["manhwas"])
            IN  /\ manhwas' = manhwas \cup Range(rows)
                /\ next_id' = [next_id EXCEPT !["manhwas"] = @ + Len(new_records)]
                /\ db_records' = put_rows(db_records,
                        [ i \in 1..Len(rows) |->
                            [key |-> <<rows[i].name, rows[i].synopsis>>, id |-> rows[i].id] ])
                /\ calls' = Append(calls, [table |-> "manhwas", op |-> "insert"])
       ELSE UNCHANGED <<manhwas, next_id, db_records, calls>>
    /\ pc' = "manhwas_upsert"
    /\ UNCHANGED <<tables, manhwa_genres, manhwa_categories, fk_on_delete, files,
                   all_data, mode, phase, data, new_records, updated_records,
                   seen_records, genre_records, category_records, err, started,
                   run, failures, prev, query_vars, progress_vars, trigger, waiting, sheet, job, pager>>

\* the rows are deleted next, before the relations are linked
sync_manhwas_upsert_DeleteNext ==
    /\ pc = "manhwas_upsert"
    /\ IF updated_records # << >>
       THEN /\ manhwas' = upsert_manhwas(manhwas, updated_records)
            /\ calls' = Append(calls, [table |-> "manhwas", op |-> "upsert"])
       ELSE UNCHANGED <<manhwas, calls>>
    /\ pc' = "manhwas_delete"
    /\ UNCHANGED <<tables, manhwa_genres, manhwa_categories, next_id, fk_on_delete,
                   files, all_data, mode, phase, data, local_vars, err, started,
                   run, failures, prev, query_vars, progress_vars, trigger, waiting, sheet, job, pager>>

\* if updated_manhwas: upsert them
sync_manhwas_upsert ==
    /\ pc = "manhwas_upsert"
    /\ IF updated_records # << >>
       THEN /\ manhwas' = upsert_manhwas(manhwas, updated_records)
            /\ calls' = Append(calls, [table |-> "manhwas", op |-> "upsert"])
       ELSE UNCHANGED <<manhwas, calls>>
    /\ pc' = "link_begin"
    /\ UNCHANGED <<tables, manhwa_genres, manhwa_categories, next_id, fk_on_delete,
                   files, all_data, mode, phase, data, local_vars, err, started,
                   run, failures, prev, query_vars, progress_vars, trigger, waiting, sheet, job, pager>>

\* bulk_link_manhwa_relations: load the genre and category maps, loop over the rows
bulk_link_begin ==
    /\ pc = "link_begin"
    /\ LET genre_map == get_all_records(tables["genres"])
           category_map == get_all_records(tables["categories"])
           st == bulk_link_scan(data, db_records, genre_map, category_map)
       IN  /\ genre_records' = st.genre_records
           /\ category_records' = st.category_records
    /\ pc' = "link_genres"
    /\ UNCHANGED <<store_vars, fk_on_delete, files, all_data, mode, phase, data,
                   db_records, new_records, updated_records, seen_records, err,
                   calls, started, run, failures, prev, query_vars, progress_vars, trigger, waiting, sheet, job, pager>>

\* if genre_records: upsert them ; the key of the link table is the pair
bulk_link_genres ==
    /\ pc = "link_genres"
    /\ IF genre_records # << >>
       THEN /\ manhwa_genres' = manhwa_genres \cup Range(genre_records)
            /\ calls' = Append(calls, [table |-> "manhwa_genres", op |-> "upsert"])
       ELSE UNCHANGED <<manhwa_genres, calls>>
    /\ pc' = "link_categories"
    /\ UNCHANGED <<tables, manhwas, manhwa_categories, next_id, fk_on_delete, files,
                   all_data, mode, phase, data, local_vars, err, started, run,
                   failures, prev, query_vars, progress_vars, trigger, waiting, sheet, job, pager>>

\* if category_records: upsert them ; bulk_link_manhwa_relations returns
bulk_link_categories ==
    /\ pc = "link_categories"
    /\ IF category_records # << >>
       THEN /\ manhwa_categories' = manhwa_categories \cup Range(category_records)
            /\ calls' = Append(calls, [table |-> "manhwa_categories", op |-> "upsert"])
       ELSE UNCHANGED <<manhwa_categories, calls>>
    /\ pc' = "manhwas_delete"
    /\ UNCHANGED <<tables, manhwas, manhwa_genres, next_id, fk_on_delete, files,
                   all_data, mode, phase, data, local_vars, err, started, run,
                   failures, prev, query_vars, progress_vars, trigger, waiting, sheet, job, pager>>

\* rows of the link tables that reference one of the manhwa ids
Referencing(ids) ==
    { l \in manhwa_genres \cup manhwa_categories : l[1] \in ids }
        \cup { <<p.manhwa_id, p.id>> : p \in { x \in user_manhwa_progress :
                                                  x.manhwa_id \in ids } }

\* if to_delete: delete them (the store cascades to, or protects, the link
\* and progress rows that reference them) ; sync_manhwas and sync_all return
sync_manhwas_delete ==
    /\ pc = "manhwas_delete"
    /\ LET ids == to_delete(db_records, seen_records)
       IN  IF ids = {}
           THEN /\ Return
                /\ UNCHANGED <<manhwas, manhwa_genres, manhwa_categories, calls,
                               user_manhwa_progress>>
           ELSE IF fk_on_delete = "restrict" /\ Referencing(ids) # {}
           THEN /\ Raise(<<PhaseMsg["manhwas"], "violates foreign key constraint">>)
                /\ calls' = Append(calls, [table |-> "manhwas", op |-> "delete"])
                /\ UNCHANGED <<manhwas, manhwa_genres, manhwa_categories,
                               user_manhwa_progress>>
           ELSE /\ Return
                /\ manhwas' = delete_in(manhwas, ids)
                /\ manhwa_genres' = { l \in manhwa_genres : l[1] \notin ids }
                /\ manhwa_categories' = { l \in manhwa_categories : l[1] \notin ids }
                /\ user_manhwa_progress' =
                      { x \in user_manhwa_progress : x.manhwa_id \notin ids }
                /\ calls' = Append(calls, [table |-> "manhwas", op |-> "delete"])
    /\ UNCHANGED <<tables, next_id, fk_on_delete, files, all_data, mode, phase, data,
                   local_vars, started, run, failures, prev, query_vars,
                   progress_key, progress_seq, reqs, trigger, waiting, sheet, job, pager>>

----------------------------------------------------------------------------
(* ManhwaSync.sync_genres / sync_categories / sync_ratings / sync_status   *)

\* load_json(filename) : Some(the row list of manhwa_data/<filename>), or None
\* when the file is not there (FileNotFoundError)
load_json(t) == files[t]

\* the data argument is overwritten by the content of the data file, then
\* sync_items is called on it
sync_ref ==
    /\ pc = "phase_begin"
    /\ phase \in RefTables
    /\ started' = Append(started, phase)
    /\ IF load_json(phase) = None
       THEN /\ Raise(<<"Data file not found", FileName[phase]>>)
            /\ data' = data
       ELSE /\ data' = AsValue(load_json(phase))
            /\ pc' = "items_begin"
            /\ err' = err
    /\ UNCHANGED <<store_vars, fk_on_delete, files, all_data, mode, phase,
                   local_vars, calls, run, failures, prev, query_vars, progress_vars, trigger, waiting, sheet, job, pager>>

----------------------------------------------------------------------------
(* ManhwaSync.sync_all, called by the background task of POST /sync *)

Store == [tables |-> tables, manhwas |-> manhwas,
          manhwa_genres |-> manhwa_genres, manhwa_categories |-> manhwa_categories]

\* the task goes on to sync_all after a failed fetch
sync_all_AfterFailedFetch(snapshot) ==
    /\ pc \in (IF trigger = NoRequest THEN {"idle", "done", "failed"} ELSE {"scheduled", "fetch_failed"})
    /\ mode = "sync_all"
    /\ run < MaxRuns
    /\ run' = run + 1
    /\ prev' = [all_data |-> all_data, pc |-> pc, store |-> Store]
    /\ all_data' = snapshot
    /\ phase' = "genres"
    /\ pc' = "phase_begin"
    /\ started' = << >>
    /\ calls' = << >>
    /\ err' = << >>
    /\ UNCHANGED <<store_vars, fk_on_delete, files, mode, data, local_vars,
                   failures, query_vars, progress_vars, trigger, waiting, sheet, job, pager>>

sync_all(snapshot) ==
    \* called directly, or by the background task POST /sync has scheduled
    /\ pc \in (IF trigger = NoRequest THEN {"idle", "done", "failed"} ELSE {"scheduled"})
    /\ mode = "sync_all"
    /\ run < MaxRuns
    /\ run' = run + 1
    /\ prev' = [all_data |-> all_data, pc |-> pc, store |-> Store]
    /\ all_data' = snapshot
    /\ phase' = "genres"
    /\ pc' = "phase_begin"
    /\ started' = << >>
    /\ calls' = << >>
    /\ err' = << >>
    /\ UNCHANGED <<store_vars, fk_on_delete, files, mode, data, local_vars,
                   failures, query_vars, progress_vars, trigger, waiting, sheet, job, pager>>

----------------------------------------------------------------------------
(* Two background tasks : sync_task is a plain function, which the server  *)
(* runs in a worker thread, so the task of a second POST /sync runs beside *)
(* the first.  The variables of the running run are those above ; the      *)
(* position and locals of the other run are kept in waiting, and the       *)
(* scheduler exchanges the two between any two round trips to the store.   *)

Context ==
    [all_data |-> all_data, pc |-> pc, phase |-> phase, data |-> data,
     db_records |-> db_records, new_records |-> new_records,
     updated_records |-> updated_records, seen_records |-> seen_records,
     genre_records |-> genre_records, category_records |-> category_records,
     err |-> err, calls |-> calls, started |-> started]

\* the scheduler runs the other thread
switch ==
    /\ waiting' = Context
    /\ all_data' = waiting.all_data
    /\ pc' = waiting.pc
    /\ phase' = waiting.phase
    /\ data' = waiting.data
    /\ db_records' = waiting.db_records
    /\ new_records' = waiting.new_records
    /\ updated_records' = waiting.updated_records
    /\ seen_records' = waiting.seen_records
    /\ genre_records' = waiting.genre_records
    /\ category_records' = waiting.category_records
    /\ err' = waiting.err
    /\ calls' = waiting.calls
    /\ started' = waiting.started
    /\ UNCHANGED <<store_vars, fk_on_delete, files, mode, run, failures, prev,
                   query_vars, progress_vars, trigger, sheet, job, pager>>

----------------------------------------------------------------------------
(* A round trip to the store fails (transport error) : the call raises     *)

\* the running step is about to issue a call to the store
IssuesCall ==
    \/ pc = "phase_begin" /\ phase = "manhwas"
    \/ pc = "items_begin" /\ data # << >>
    \/ pc = "items_insert" /\ new_records # << >>
    \/ pc = "items_upsert" /\ updated_records # << >>
    \/ pc = "items_delete" /\ to_delete(db_records, seen_records) # {}
    \/ pc = "manhwas_insert" /\ new_records # << >>
    \/ pc = "manhwas_upsert" /\ updated_records # << >>
    \/ pc = "link_begin"
    \/ pc = "link_genres" /\ genre_records # << >>
    \/ pc = "link_categories" /\ category_records # << >>
    \/ pc = "manhwas_delete" /\ to_delete(db_records, seen_records) # {}

StoreUnavailable == "store unavailable"

store_fails ==
    /\ IssuesCall
    /\ failures < MaxFailures
    /\ failures' = failures + 1
    /\ Raise(IF pc \in {"items_begin", "items_insert", "items_upsert", "items_delete"}
             THEN <<ItemsMsg[phase], StoreUnavailable>>
             ELSE IF pc \in {"link_begin", "link_genres", "link_categories"}
             THEN <<PhaseMsg["manhwas"], "Failed to link manhwa relationships",
                    StoreUnavailable>>
             ELSE <<PhaseMsg["manhwas"], StoreUnavailable>>)
    /\ started' = IF pc = "phase_begin" THEN Append(started, phase) ELSE started
    /\ UNCHANGED <<store_vars, fk_on_delete, files, all_data, mode, phase, data,
                   local_vars, calls, run, prev, query_vars, progress_vars, trigger, waiting, sheet, job, pager>>

----------------------------------------------------------------------------
(* GET /manhwas : routers/manhwa_finder.get_manhwas and                    *)
(* ManhwaDatabaseManager.get_manhwas                                       *)

\* Python truth value of an optional list / an optional int
Truthy(o) == o # None /\ AsValue(o) # << >>
TruthyInt(o) == o # None /\ AsValue(o) # 0

\* the characters of the names, in ascending code order
Alphabet == <<" ", "a", "b", "c", "g", "m", "n", "o", "s", "z">>
CodeOf(c) == CHOOSE i \in 1..Len(Alphabet) : Alphabet[i] = c

\* s <= t in the order of .order("name")
RECURSIVE StrLeq(_, _)
StrLeq(s, t) ==
    IF s = << >> THEN TRUE
    ELSE IF t = << >> THEN FALSE
    ELSE IF Head(s) = Head(t) THEN StrLeq(Tail(s), Tail(t))
    ELSE CodeOf(Head(s)) < CodeOf(Head(t))

\* the orders in which the store may return rows under .order("name") :
\* rows of equal name come in any order
RECURSIVE OrderedByName(_)
OrderedByName(rows) ==
    IF rows = {} THEN { << >> }
    ELSE LET least == { r \in rows : \A x \in rows : StrLeq(r.name, x.name) }
         IN  UNION { { <<r>> \o o : o \in OrderedByName(rows \ {r}) } : r \in least }

\* the upper limit of per_page left out
validate_request_NoUpperLimit(req) ==
    IF req.page < 1 THEN Some("Page number must be greater than 0")
    ELSE IF req.per_page < 1
    THEN Some("Items per page must be between 1 and 100")
    ELSE None

\* the input validation of the route ; Some(message) when the request is rejected
validate_request(req) ==
    IF req.page < 1 THEN Some("Page number must be greater than 0")
    ELSE IF req.per_page < 1 \/ req.per_page > 100
    THEN Some("Items per page must be between 1 and 100")
    ELSE IF req.min_chapters # None /\ AsValue(req.min_chapters) < 0
    THEN Some("Minimum chapters cannot be negative")
    ELSE IF req.max_chapters # None /\ AsValue(req.max_chapters) < 0
    THEN Some("Maximum chapters cannot be negative")
    ELSE IF /\ req.min_year_released # None
            /\ req.max_year_released # None
            /\ AsValue(req.min_year_released) > AsValue(req.max_year_released)
    THEN Some("Minimum year released cannot be greater than maximum year released")
    ELSE None

\* set(names) - valid names, when the filter is given
InvalidNames(filter, rows) ==
    IF Truthy(filter) THEN Range(AsValue(filter)) \ { r.name : r \in rows } ELSE {}

\* ManhwaDatabaseManager._validate_filters : the invalid_filters dict
validate_filters(req) ==
    LET all == [invalid_genres |-> InvalidNames(req.genres, tables["genres"]),
                invalid_categories |-> InvalidNames(req.categories, tables["categories"]),
                invalid_statuses |-> InvalidNames(req.status, tables["status"]),
                invalid_ratings |-> InvalidNames(req.ratings, tables["rating"])]
    IN  [ k \in { x \in DOMAIN all : all[x] # {} } |-> all[k] ]

\* _get_genre_ids / _get_category_ids / _get_status_ids / _get_rating_ids
get_ids(rows, names) == { r.id : r \in { x \in rows : x.name \in Range(names) } }

\* _get_manhwa_ids_by_genres / _get_manhwa_ids_by_categories : the manhwa_id
\* of every link row whose genre_id (category_id) is one of the ids
get_manhwa_ids_by(links, ids) == { l[1] : l \in { x \in links : x[2] \in ids } }

\* the rows the query of get_manhwas selects, before .range()
matching(req) ==
    { r \in manhwas :
        \* manhwa_genres!inner(...), manhwa_categories!inner(...)
        /\ \E l \in manhwa_genres : l[1] = r.id
        /\ \E l \in manhwa_categories : l[1] = r.id
        /\ TruthyInt(req.min_year_released)
             => r.year_released >= AsValue(req.min_year_released)
        /\ TruthyInt(req.max_year_released)
             => r.year_released <= AsValue(req.max_year_released)
        /\ TruthyInt(req.min_chapters)
             => r.chapter_min >= AsValue(req.min_chapters)
        /\ TruthyInt(req.max_chapters)
             => r.chapter_max # None /\ AsValue(r.chapter_max) <= AsValue(req.max_chapters)
        /\ Truthy(req.status)
             => r.status_id # None
                /\ AsValue(r.status_id) \in get_ids(tables["status"], AsValue(req.status))
        /\ Truthy(req.ratings)
             => r.rating_id # None
                /\ AsValue(r.rating_id) \in get_ids(tables["rating"], AsValue(req.ratings))
        /\ Truthy(req.genres)
             => r.id \in get_manhwa_ids_by(manhwa_genres,
                                          get_ids(tables["genres"], AsValue(req.genres)))
        /\ Truthy(req.categories)
             => r.id \in get_manhwa_ids_by(manhwa_categories,
                                          get_ids(tables["categories"], AsValue(req.categories))) }

\* the end of the range taken as exclusive
page_range_EndExclusive(page, per_page) ==
    [start |-> (page - 1) * per_page, end |-> (page - 1) * per_page + per_page]

\* start = (page - 1) * per_page ; end = start + per_page - 1
page_range(page, per_page) ==
    [start |-> (page - 1) * per_page, end |-> (page - 1) * per_page + per_page - 1]

\* (total_count + per_page - 1) // per_page
pages_of(total_count, per_page) == (total_count + per_page - 1) \div per_page

\* the processing of one result row
processed(r) ==
    [id |-> r.id, name |-> r.name, synopsis |-> r.synopsis,
     year_released |-> r.year_released, chapters |-> r.chapters,
     chapter_min |-> r.chapter_min, chapter_max |-> r.chapter_max,
     image_url |-> r.image_url,
     genres |-> { g.name : g \in { x \in tables["genres"] :
                                     <<r.id, x.id>> \in manhwa_genres } },
     categories |-> { c.name : c \in { x \in tables["categories"] :
                                         <<r.id, x.id>> \in manhwa_categories } }]

\* the queries get_manhwas issues to the store : four reads for the
\* validation, the id look-ups of the filters given, and the query itself
queries_of(req) ==
    4 + (IF Truthy(req.status) THEN 1 ELSE 0) + (IF Truthy(req.ratings) THEN 1 ELSE 0)
      + (IF Truthy(req.genres) THEN 2 ELSE 0) + (IF Truthy(req.categories) THEN 2 ELSE 0)
      + 1

ErrorResponse(error, status_code, message, details) ==
    [kind |-> "error", error |-> error, status_code |-> status_code,
     message |-> message, details |-> details]

\* the whole handler of GET /manhwas
get_manhwas(req) ==
    /\ pc = "serving"
    /\ request' = req
    /\ IF validate_request(req) # None
       THEN \* raised before the try block : the ValidationError handler answers
            /\ response' = ErrorResponse("ValidationError", 400,
                                         <<AsValue(validate_request(req))>>, EmptyDict)
            /\ store_queries' = 0
       ELSE IF validate_filters(req) # EmptyDict
       THEN \* the ValidationError of the manager is caught by the route's
            \* "except Exception" and raised again as a DatabaseError
            /\ response' = ErrorResponse("DatabaseError", 500,
                                         <<"Failed to retrieve manhwas", "Invalid filters">>,
                                         EmptyDict)
            /\ store_queries' = 4
       ELSE \E o \in OrderedByName(matching(req)) :
            LET rg == page_range(req.page, req.per_page)
                rows == range(o, rg.start, rg.end)
                total_count == Cardinality(matching(req))
            IN  /\ response' =
                      [kind |-> "ok",
                       data |-> [ i \in 1..Len(rows) |-> processed(rows[i]) ],
                       pagination |-> [page |-> req.page, per_page |-> req.per_page,
                                       total |-> total_count,
                                       pages |-> pages_of(total_count, req.per_page)]]
                /\ store_queries' = queries_of(req)
    /\ pc' = "served"
    /\ UNCHANGED <<store_vars, fk_on_delete, files, all_data, mode, phase, data,
                   local_vars, err, calls, started, run, failures, prev,
                   progress_vars, trigger, waiting, sheet, job, pager>>

----------------------------------------------------------------------------
(* GoogleSheetsManager.parse_column_ranges and fetch_data *)

\* sorted(selected_columns)
RECURSIVE sorted(_)
sorted(S) ==
    IF S = {} THEN << >>
    ELSE LET least == CHOOSE x \in S : \A y \in S : x <= y
         IN  <<least>> \o sorted(S \ {least})

\* the range ends before its last index
parse_part_EndExclusive(part) ==
    LET p == strip(part)
    IN  IF Contains(<<":">>, p)
        THEN LET f == split(p, <<":">>)
             IN  IF Len(f) # 2 \/ int(f[1]) = None \/ int(f[2]) = None
                 THEN None
                 ELSE Some(AsValue(int(f[1])) .. (AsValue(int(f[2])) - 1))
        ELSE IF int(p) = None THEN None ELSE Some({AsValue(int(p))})

\* one turn of the loop : the indices the part adds, or None when int() or
\* the unpacking of start, end raises ValueError
parse_part(part) ==
    LET p == strip(part)
    IN  IF Contains(<<":">>, p)
        THEN LET f == split(p, <<":">>)
             IN  IF Len(f) # 2 \/ int(f[1]) = None \/ int(f[2]) = None
                 THEN None
                 ELSE Some(AsValue(int(f[1])) .. AsValue(int(f[2])))
        ELSE IF int(p) = None THEN None ELSE Some({AsValue(int(p))})

\* Some(the list of column indexes), or None when a part raises
parse_column_ranges(column_string) ==
    LET parts == split(column_string, <<",">>)
    IN  IF \E i \in 1..Len(parts) : parse_part(parts[i]) = None
        THEN None
        ELSE Some(sorted(UNION { AsValue(parse_part(parts[i])) : i \in 1..Len(parts) }))

\* worksheet.get_values() : the header row and one data row, ten columns
SheetWidth == 10
Worksheet == << [c \in 1..SheetWidth |-> <<"h", c - 1>>],
                [c \in 1..SheetWidth |-> <<"v", c - 1>>] >>

\* row[col] : a negative index counts from the end, an index outside the row
\* raises IndexError
InRow(row, col) == col < Len(row) /\ col >= 0 - Len(row)
Cell(row, col) == row[(col % Len(row)) + 1]

\* gspread.utils.to_records(headers, data)
to_records(headers, rows) ==
    [ i \in 1..Len(rows) |->
        [ h \in Range(headers) |->
            rows[i][CHOOSE j \in 1..Len(headers) : headers[j] = h] ] ]

\* fetch_data(sheet_name, column_string, header_row_index) with the header in
\* the first row : the records, or the DatabaseError that wraps what was raised
fetch_data ==
    /\ sheet.pc = "idle"
    /\ LET selected_columns == parse_column_ranges(sheet.column_string)
       IN  sheet' =
             [sheet EXCEPT
                !.pc = "done",
                !.selected_columns = selected_columns,
                !.result =
                   IF selected_columns = None
                   THEN [kind |-> "DatabaseError",
                         message |-> <<"Error fetching data from", "invalid literal for int()">>]
                   ELSE LET cols == AsValue(selected_columns)
                        IN  IF \E i \in 1..Len(cols) : ~ InRow(Worksheet[1], cols[i])
                            THEN [kind |-> "DatabaseError",
                                  message |-> <<"Error fetching data from",
                                               "list index out of range">>]
                            ELSE [kind |-> "records",
                                  records |->
                                     to_records(
                                        [i \in 1..Len(cols) |-> Cell(Worksheet[1], cols[i])],
                                        << [i \in 1..Len(cols) |->
                                               Cell(Worksheet[2], cols[i])] >>)]]
    /\ UNCHANGED <<store_vars, fk_on_delete, files, all_data, mode, pc, phase, data,
                   local_vars, err, calls, started, run, failures, prev, query_vars,
                   progress_vars, trigger, waiting, job, pager>>

----------------------------------------------------------------------------
(* POST /sync, /sync_missing_images, /sync_all_images : routers/sync.py    *)

\* settings.SYNC_API_KEY
SYNC_API_KEY == "k"

\* every key is let through
authorized_Always(api_key) == TRUE

\* api_key != settings.SYNC_API_KEY raises ; the header is None when missing
authorized(api_key) == api_key = Some(SYNC_API_KEY)

StartedMsg == [sync |-> "Sync started",
               sync_missing_images |-> "Missing image sync started",
               sync_all_images |-> "All image sync started"]

\* the body the route returns once the task is added
Acknowledgment(route) ==
    [kind |-> "ok", message |-> StartedMsg[route], status |-> "processing"]

\* no background task is scheduled or running
RestStates == {"idle", "done", "failed", "fetch_failed", "image_done", "image_failed"}

\* the three routes : the key check, background_tasks.add_task, the answer
post(route, api_key) ==
    /\ pc \in RestStates
    /\ IF ~authorized(api_key)
       THEN /\ trigger' = [kind |-> "answered", route |-> route, api_key |-> api_key,
                           response |-> ErrorResponse("AuthenticationError", 401,
                                          <<"Invalid API Key for sync operation">>,
                                          EmptyDict)]
            /\ pc' = pc
       ELSE /\ route = "sync" => run < MaxRuns
            /\ trigger' = [kind |-> "answered", route |-> route, api_key |-> api_key,
                           response |-> Acknowledgment(route)]
            /\ pc' = IF route = "sync" THEN "scheduled" ELSE "image_scheduled"
    /\ UNCHANGED <<store_vars, fk_on_delete, files, all_data, mode, phase, data,
                   local_vars, err, calls, started, run, failures, prev, query_vars,
                   progress_vars, waiting, sheet, job, pager>>

sync(api_key) == post("sync", api_key)
sync_missing_images(api_key) == post("sync_missing_images", api_key)
sync_all_images(api_key) == post("sync_all_images", api_key)

\* the failure is sent to the caller in place of being logged
fetch_all_fails_Reported ==
    /\ pc = "scheduled"
    /\ failures < MaxFailures
    /\ failures' = failures + 1
    /\ pc' = "fetch_failed"
    /\ err' = <<"Failed to fetch all data", "source unavailable">>
    /\ trigger' = [trigger EXCEPT !.response =
                      ErrorResponse("DatabaseError", 500, err', EmptyDict)]
    /\ UNCHANGED <<store_vars, fk_on_delete, files, all_data, mode, phase, data,
                   local_vars, calls, started, run, prev, query_vars, progress_vars, waiting, sheet, job, pager>>

\* sync_task : data_manager.fetch_all() raises DatabaseError, which the task
\* logs ; sync_all is not called
fetch_all_fails ==
    /\ pc = "scheduled"
    /\ failures < MaxFailures
    /\ failures' = failures + 1
    /\ pc' = "fetch_failed"
    /\ err' = <<"Failed to fetch all data", "source unavailable">>
    /\ UNCHANGED <<store_vars, fk_on_delete, files, all_data, mode, phase, data,
                   local_vars, calls, started, run, prev, query_vars, progress_vars,
                   trigger, waiting, sheet, job, pager>>

NoFilters ==
    [genres |-> None, categories |-> None, status |-> None, ratings |-> None,
     min_chapters |-> None, max_chapters |-> None, min_year_released |-> None,
     max_year_released |-> None, page |-> 1, per_page |-> 100]

\* the rows the image task works on : get_manhwas_without_image(), or the
\* pages of get_manhwas()
image_targets(route) ==
    IF route = "sync_missing_images" THEN { r \in manhwas : r.image_url = None }
    ELSE matching(NoFilters)

\* fetch_missing_images(max_retries=3), fetch_all_images(max_retries=3)
max_retries == 3
\* per_page = 100
IMAGE_PER_PAGE == 100

\* one attempt more is allowed
retrying_OneMore(retries) == retries <= max_retries

\* while retries < max_retries
retrying(retries) == retries < max_retries

\* the lookups made so far for the row of that id
LookupsOf(j, id) == IF id \in DOMAIN j.lookups THEN j.lookups[id] ELSE 0

\* the task starts : fetch_missing_images reads the rows without image, in
\* the order of the store ; fetch_all_images sets page = 1.  A failure of the
\* read is raised as DatabaseError, which the task logs.
image_task ==
    /\ pc = "image_scheduled"
    /\ IF trigger.route = "sync_missing_images"
       THEN \/ LET rows == ById(image_targets(trigger.route))
                IN  /\ job' = [NoJob EXCEPT !.route = trigger.route, !.items = rows,
                                           !.visited = IF rows = << >> THEN {}
                                                       ELSE {rows[1].id}]
                    /\ pc' = IF rows = << >> THEN "image_done" ELSE "image_lookup"
                    /\ err' = << >>
                    /\ UNCHANGED failures
            \/ /\ failures < MaxFailures
               /\ failures' = failures + 1
               /\ pc' = "image_failed"
               /\ err' = <<"Failed to fetch missing images",
                           "Failed to fetch manhwas without images">>
               /\ job' = NoJob
       ELSE /\ job' = [NoJob EXCEPT !.route = trigger.route]
            /\ pc' = "image_page"
            /\ err' = << >>
            /\ UNCHANGED failures
    /\ UNCHANGED <<store_vars, fk_on_delete, files, all_data, mode, phase, data,
                   local_vars, calls, started, run, prev, query_vars, progress_vars,
                   trigger, waiting, sheet, pager>>

\* fetch_all_images : get_manhwas(page, per_page) ; an empty page ends the job
image_page ==
    /\ pc = "image_page"
    /\ \/ \E o \in OrderedByName(matching(NoFilters)) :
            LET rg == page_range(job.page, IMAGE_PER_PAGE)
                rows == range(o, rg.start, rg.end)
            IN  /\ job' = [job EXCEPT !.items = rows, !.retries = 0,
                                      !.visited = IF rows = << >> THEN @
                                                  ELSE @ \cup {rows[1].id}]
                /\ pc' = IF rows = << >> THEN "image_done" ELSE "image_lookup"
                /\ UNCHANGED <<failures, err>>
       \/ /\ failures < MaxFailures
          /\ failures' = failures + 1
          /\ pc' = "image_failed"
          /\ err' = <<"Failed to fetch all images", "Failed to fetch manhwas">>
          /\ job' = job
    /\ UNCHANGED <<store_vars, fk_on_delete, files, all_data, mode, phase, data,
                   local_vars, calls, started, run, prev, query_vars, progress_vars,
                   trigger, waiting, sheet, pager>>

\* the position and locals after the turn of the retry loop that left the
\* retry count at retries : the same row again, the next row, the next page,
\* or the end of the job
after_attempt(j, retries, finished) ==
    IF ~ finished /\ retrying(retries)
    THEN [pc |-> "image_lookup", job |-> [j EXCEPT !.retries = retries]]
    ELSE IF Len(j.items) > 1
    THEN [pc |-> "image_lookup",
          job |-> [j EXCEPT !.items = Tail(@), !.retries = 0,
                            !.visited = @ \cup {j.items[2].id}]]
    ELSE IF j.route = "sync_missing_images"
    THEN [pc |-> "image_done", job |-> [j EXCEPT !.items = << >>, !.retries = 0]]
    ELSE [pc |-> "image_page",
          job |-> [j EXCEPT !.items = << >>, !.retries = 0, !.page = @ + 1]]

\* _fetch_image(manhwa["name"]) : an image url, or None whatever went wrong
\* upstream ; without a url the retry count goes up
fetch_image ==
    /\ pc = "image_lookup"
    /\ LET id == job.items[1].id
           counted == [job EXCEPT !.lookups =
                          [x \in DOMAIN @ \cup {id} |->
                              IF x = id THEN LookupsOf(job, id) + 1 ELSE @[x]]]
       IN  \/ /\ job' = [counted EXCEPT !.image_url = Some("img")]
              /\ pc' = "image_update"
           \/ LET nxt == after_attempt([counted EXCEPT !.image_url = None],
                                       job.retries + 1, FALSE)
              IN  /\ job' = nxt.job
                  /\ pc' = nxt.pc
    /\ UNCHANGED <<store_vars, fk_on_delete, files, all_data, mode, phase, data,
                   local_vars, err, calls, started, run, failures, prev, query_vars,
                   progress_vars, trigger, waiting, sheet, pager>>

\* update_image_url(manhwa["id"], image_url) : the row is updated and the
\* retry loop is left, or the update raises and the retry count goes up
update_image_url ==
    /\ pc = "image_update"
    /\ LET id == job.items[1].id
       IN  \/ LET nxt == after_attempt([job EXCEPT !.updated = @ \cup {id}],
                                       job.retries, TRUE)
              IN  /\ manhwas' = { IF r.id = id
                                  THEN [r EXCEPT !.image_url = job.image_url]
                                  ELSE r : r \in manhwas }
                  /\ job' = nxt.job
                  /\ pc' = nxt.pc
           \/ LET nxt == after_attempt(job, job.retries + 1, FALSE)
              IN  /\ manhwas' = manhwas
                  /\ job' = nxt.job
                  /\ pc' = nxt.pc
    /\ UNCHANGED <<tables, manhwa_genres, manhwa_categories, next_id, fk_on_delete,
                   files, all_data, mode, phase, data, local_vars, err, calls,
                   started, run, failures, prev, query_vars, progress_vars, trigger,
                   waiting, sheet, pager>>

----------------------------------------------------------------------------
(* POST /progress, PATCH /progress/{manhwa_id}, GET /progress :            *)
(* routers/users.py and ManhwaDatabaseManager, one action per round trip   *)
(* to the store ; the requests of different slots interleave               *)

Bearer == <<"B", "e", "a", "r", "e", "r", " ">>

\* supabase.auth.get_user(access_token) : Some(the id of the user of a valid
\* session), or None when the token is unknown or expired
get_user(access_token) ==
    IF access_token = <<"1">> THEN Some("u1")
    ELSE IF access_token = <<"2">> THEN Some("u2")
    ELSE None

\* ManhwaDatabaseManager.get_user_id : every failure is raised as
\* AuthenticationError("Invalid or expired token")
get_user_id(access_token) == get_user(access_token)

Answer(s, resp) == reqs' = [reqs EXCEPT ![s].pc = "done", ![s].response = resp]

RouteMsg == [add |-> "Failed to add progress", update |-> "Failed to update progress",
             get |-> "Failed to get user progress"]

\* the route up to the first store query of the manager : the header checks,
\* auth_token.split("Bearer ")[1] and get_user_id
progress_request(op, auth_token, manhwa_id, current_chapter) ==
    /\ Len(reqs) < MaxRequests
    /\ LET parts == IF auth_token = None THEN << >>
                    ELSE split(AsValue(auth_token), Bearer)
           user == IF Len(parts) >= 2 THEN get_user_id(parts[2]) ELSE None
           req == [op |-> op, auth_token |-> auth_token, manhwa_id |-> manhwa_id,
                   current_chapter |-> current_chapter,
                   reading_status |-> "reading", user_id |-> user, wrote |-> FALSE]
           answered(resp) == [ f \in (DOMAIN req) \cup {"pc", "response"} |->
                                  IF f = "pc" THEN "done"
                                  ELSE IF f = "response" THEN resp ELSE req[f] ]
           going(to) == [ f \in (DOMAIN req) \cup {"pc", "response"} |->
                             IF f = "pc" THEN to
                             ELSE IF f = "response" THEN NoRequest ELSE req[f] ]
       IN  reqs' = Append(reqs,
             IF ~Truthy(auth_token)
             THEN answered(ErrorResponse("AuthenticationError", 401,
                                         <<"Authorization token is required">>, EmptyDict))
             ELSE IF Len(parts) < 2
             THEN answered(ErrorResponse("AuthenticationError", 401,
                                         <<"Invalid token format">>, EmptyDict))
             ELSE IF user = None
             THEN \* the AuthenticationError of the manager is caught by the
                  \* route's "except Exception" and raised again as a DatabaseError
                  answered(ErrorResponse("DatabaseError", 500,
                                         <<RouteMsg[op], "Invalid or expired token">>,
                                         EmptyDict))
             ELSE going(IF op = "add" THEN "select" ELSE op))
    /\ UNCHANGED <<store_vars, fk_on_delete, files, all_data, mode, pc, phase, data,
                   local_vars, err, calls, started, run, failures, prev, query_vars,
                   user_manhwa_progress, progress_key, progress_seq, trigger, waiting, sheet, job, pager>>

\* the rows .eq("user_id", user_id).eq("manhwa_id", manhwa_id) selects
progress_of(user_id, manhwa_id) ==
    { x \in user_manhwa_progress : x.user_id = user_id /\ x.manhwa_id = manhwa_id }

\* add_progress : "Check if progress already exists"
add_progress_select(s) ==
    /\ s \in DOMAIN reqs
    /\ reqs[s].pc = "select"
    /\ reqs' = [reqs EXCEPT ![s].pc =
                  IF progress_of(AsValue(reqs[s].user_id), reqs[s].manhwa_id) # {}
                  THEN "update" ELSE "insert"]
    /\ UNCHANGED <<store_vars, fk_on_delete, files, all_data, mode, pc, phase, data,
                   local_vars, err, calls, started, run, failures, prev, query_vars,
                   user_manhwa_progress, progress_key, progress_seq, trigger, waiting, sheet, job, pager>>

\* add_progress : "Insert new progress" ; the store refuses a row that
\* references no manhwa, and a second row of a key it keeps unique
add_progress_insert(s) ==
    /\ s \in DOMAIN reqs
    /\ reqs[s].pc = "insert"
    /\ LET r == reqs[s]
           row == [id |-> progress_seq, user_id |-> AsValue(r.user_id),
                   manhwa_id |-> r.manhwa_id, current_chapter |-> r.current_chapter,
                   status |-> r.reading_status]
           refused == \/ r.manhwa_id \notin { m.id : m \in manhwas }
                      \/ /\ progress_key = "unique"
                         /\ progress_of(AsValue(r.user_id), r.manhwa_id) # {}
       IN  IF refused
           THEN /\ Answer(s, ErrorResponse("DatabaseError", 500,
                                  <<RouteMsg["add"], "Failed to add progress">>, EmptyDict))
                /\ UNCHANGED <<user_manhwa_progress, progress_seq>>
           ELSE /\ user_manhwa_progress' = user_manhwa_progress \cup {row}
                /\ progress_seq' = progress_seq + 1
                /\ reqs' = [reqs EXCEPT ![s].pc = "done", ![s].wrote = TRUE,
                                        ![s].response = [kind |-> "ok", data |-> {row}]]
    /\ UNCHANGED <<store_vars, fk_on_delete, files, all_data, mode, pc, phase, data,
                   local_vars, err, calls, started, run, failures, prev, query_vars,
                   progress_key, trigger, waiting, sheet, job, pager>>

\* update_progress : .update({...}).eq("user_id", ...).eq("manhwa_id", ...)
update_progress(s) ==
    /\ s \in DOMAIN reqs
    /\ reqs[s].pc = "update"
    /\ LET r == reqs[s]
           hit == progress_of(AsValue(r.user_id), r.manhwa_id)
           new == { [x EXCEPT !.current_chapter = r.current_chapter,
                              !.status = r.reading_status] : x \in hit }
       IN  /\ user_manhwa_progress' = (user_manhwa_progress \ hit) \cup new
           /\ reqs' = [reqs EXCEPT ![s].pc = "done", ![s].wrote = (hit # {}),
                                   ![s].response = [kind |-> "ok", data |-> new]]
    /\ UNCHANGED <<store_vars, fk_on_delete, files, all_data, mode, pc, phase, data,
                   local_vars, err, calls, started, run, failures, prev, query_vars,
                   progress_key, progress_seq, trigger, waiting, sheet, job, pager>>

\* get_user_progress : .select(...).eq("user_id", user_id)
get_user_progress(s) ==
    /\ s \in DOMAIN reqs
    /\ reqs[s].pc = "get"
    /\ Answer(s, [kind |-> "ok",
                  data |-> { x \in user_manhwa_progress :
                               x.user_id = AsValue(reqs[s].user_id) }])
    /\ UNCHANGED <<store_vars, fk_on_delete, files, all_data, mode, pc, phase, data,
                   local_vars, err, calls, started, run, failures, prev, query_vars,
                   user_manhwa_progress, progress_key, progress_seq, trigger, waiting, sheet, job, pager>>

----------------------------------------------------------------------------
(* Inputs *)

Row(k, d) == [Key |-> k, Description |-> d]
RefRow(id, n, d) == [id |-> id, name |-> n, description |-> d]

\* source rows of a reference sheet : plain, padded and repeated keys
ItemKeyPool == { <<"a">>, <<" ", "a">>, <<"b">> }
ItemDescPool == { <<"x">>, <<"y", " ">> }
ItemRows == { Row(k, d) : k \in ItemKeyPool, d \in ItemDescPool }
ItemLists == SeqsUpTo(ItemRows, MaxRows)

\* contents of a reference table left by earlier runs
ItemTables == { {},
                { RefRow(1, <<"a">>, <<"x">>) },
                { RefRow(1, <<"a">>, <<"z">>), RefRow(2, <<"b">>, <<"x">>) },
                { RefRow(1, <<"c">>, <<"x">>), RefRow(3, <<"b">>, <<"y">>) } }
\* the serial counters stand above every id handed out before
FirstFreeId == 1 + Cardinality(UNION { { r.id : r \in T } : T \in ItemTables })

NoData == [genres |-> << >>, categories |-> << >>, rating |-> << >>,
           status |-> << >>, master_list |-> << >>]
NoPrev == [all_data |-> NoData, pc |-> "idle",
           store |-> [tables |-> [t \in RefTables |-> {}], manhwas |-> {},
                      manhwa_genres |-> {}, manhwa_categories |-> {}]]

\* a run that has not been started : the locals of a fresh call
NotStarted ==
    [all_data |-> NoData, pc |-> "idle", phase |-> "genres", data |-> << >>,
     db_records |-> EmptyDict, new_records |-> << >>,
     updated_records |-> << >>, seen_records |-> {},
     genre_records |-> << >>, category_records |-> << >>,
     err |-> << >>, calls |-> << >>, started |-> << >>]

\* no fetch_data call has been made
NoFetch == [pc |-> "idle", column_string |-> << >>, selected_columns |-> None,
            result |-> NoRequest]

\* no operation has run yet
InitLocals ==
    /\ db_records = EmptyDict
    /\ new_records = << >>
    /\ updated_records = << >>
    /\ seen_records = {}
    /\ genre_records = << >>
    /\ category_records = << >>
    /\ err = << >>
    /\ calls = << >>
    /\ started = << >>
    /\ run = 0
    /\ failures = 0
    /\ prev = NoPrev
    /\ request = NoRequest
    /\ response = NoRequest
    /\ store_queries = 0
    /\ progress_seq = FirstFreeId
    /\ reqs = << >>
    /\ trigger = NoRequest
    /\ waiting = NotStarted
    /\ job = NoJob
    /\ pager = NoPager

\* ... and no snapshot has been handed over
InitIdle ==
    /\ InitLocals
    /\ all_data = NoData
    /\ sheet = NoFetch

\* ... and the catalog is empty
InitCommon ==
    /\ InitIdle
    /\ user_manhwa_progress = {}
    /\ progress_key = "unique"
    /\ manhwas = {}
    /\ manhwa_genres = {}
    /\ manhwa_categories = {}
    /\ next_id = [t \in AllTables |-> FirstFreeId]

----------------------------------------------------------------------------
(* SpecItems : one call sync_items("genres", data, map) on any table       *)
(* content and any source row list                                         *)

InitItems ==
    /\ InitCommon
    /\ mode = "sync_items"
    /\ phase = "genres"
    /\ pc = "items_begin"
    /\ fk_on_delete = "cascade"
    /\ files = [t \in RefTables |-> None]
    /\ data \in ItemLists
    /\ \E T \in ItemTables : tables = [t \in RefTables |-> IF t = "genres" THEN T ELSE {}]

NextItems ==
    \/ sync_items_begin
    \/ sync_items_insert
    \/ sync_items_upsert
    \/ sync_items_delete
    \/ store_fails

SpecItems == InitItems /\ [][NextItems]_vars

----------------------------------------------------------------------------
(* SpecSync : up to MaxRuns runs of the background task of POST /sync, one *)
(* after the other, each on a snapshot of the spreadsheet                  *)

RefV1 == [genres |-> <<Row(<<"a">>, <<"x">>), Row(<<"b">>, <<"y">>)>>,
          categories |-> <<Row(<<"a">>, <<"x">>), Row(<<"b">>, <<"y">>)>>,
          rating |-> <<Row(<<"g">>, <<"x">>)>>,
          status |-> <<Row(<<"o">>, <<"x">>)>>]

\* genre b and category b are gone, the rating has a new description
RefV2 == [genres |-> <<Row(<<"a">>, <<"x">>)>>,
          categories |-> <<Row(<<"a">>, <<"x">>)>>,
          rating |-> <<Row(<<"g">>, <<"y">>)>>,
          status |-> <<Row(<<"o">>, <<"x">>)>>]

Master(title, chapters, genres, categories) ==
    [Title |-> title, Synopsis |-> <<"s">>, YearReleased |-> <<"2", "0">>,
     Chapters |-> chapters, Status |-> <<"o">>, Rating |-> <<"g">>,
     Genres |-> genres, Categories |-> categories]

M1 == Master(<<"m">>, <<"7", "5">>, <<"a", ",", " ", "b">>, <<"a">>)
\* the same entry with one genre less and one category more
M1b == Master(<<"m">>, <<"7", "5">>, <<"a">>, <<"a", ",", " ", "b">>)
M2 == Master(<<"n", " ">>, LessThan \o <<" ", "5", "0">>, <<"b">>, <<"b">>)
\* an entry whose status is unknown and whose rating is padded
M3 == [Master(<<"c">>, MoreThan \o <<" ", "2", "0", "0">>, <<"a">>, <<"a">>)
          EXCEPT !.Status = <<"z">>, !.Rating = <<"g", " ">>]

Snapshot(ref, master_list) ==
    [genres |-> ref.genres, categories |-> ref.categories, rating |-> ref.rating,
     status |-> ref.status, master_list |-> master_list]

SnapshotPool == { Snapshot(RefV1, <<M1>>),
                  Snapshot(RefV1, <<M1b>>),
                  Snapshot(RefV1, <<M1, M2>>),
                  Snapshot(RefV2, <<M2>>),
                  Snapshot(RefV1, <<M2, M2>>),
                  Snapshot(RefV1, <<M3>>),
                  Snapshot(RefV2, << >>) }

\* the data files found in manhwa_data/
DataFiles(ref, found) ==
    [t \in RefTables |-> IF t \in found THEN Some(ref[t]) ELSE None]

FilePool == { DataFiles(RefV1, RefTables), DataFiles(RefV2, RefTables),
              DataFiles(RefV1, RefTables \ {"status"}) }

\* the reference tables before the first run : empty, or left by earlier runs
TablePool == { [t \in RefTables |-> {}],
               [t \in RefTables |->
                    IF t = "genres"
                    THEN { RefRow(1, <<"a">>, <<"z">>), RefRow(2, <<"c">>, <<"x">>) }
                    ELSE {}] }

\* the row sync_manhwas stores for a source row, once inserted with that id
StoredEntry(id, entry, T) ==
    insert_manhwas(<<AsValue(manhwa_data(entry, get_all_records(T["status"]),
                                         get_all_records(T["rating"])))>>, id)[1]

SyncedTables ==
    [genres |-> { RefRow(1, <<"a">>, <<"x">>), RefRow(2, <<"b">>, <<"y">>) },
     categories |-> { RefRow(1, <<"a">>, <<"x">>), RefRow(2, <<"b">>, <<"y">>) },
     rating |-> { RefRow(1, <<"g">>, <<"x">>) },
     status |-> { RefRow(1, <<"o">>, <<"x">>) }]

\* the store before the first run : an empty catalog, or the catalog left by
\* an earlier run on (RefV1, <<M1>>) for whose entry user u1 has recorded
\* progress, or the catalog left by an earlier run on (RefV1, <<M2, M2>>),
\* which has inserted the entry twice and linked the second row
SyncStores ==
    { [tables |-> T, manhwas |-> {}, manhwa_genres |-> {}, manhwa_categories |-> {},
       user_manhwa_progress |-> {}] : T \in TablePool }
    \cup { [tables |-> SyncedTables,
            manhwas |-> { StoredEntry(1, M1, SyncedTables) },
            manhwa_genres |-> { <<1, 1>>, <<1, 2>> },
            manhwa_categories |-> { <<1, 1>> },
            user_manhwa_progress |->
                { [id |-> 1, user_id |-> "u1", manhwa_id |-> 1,
                   current_chapter |-> 1, status |-> "reading"] }],
           [tables |-> SyncedTables,
            manhwas |-> { StoredEntry(2, M2, SyncedTables),
                          StoredEntry(3, M2, SyncedTables) },
            manhwa_genres |-> { <<3, 2>> },
            manhwa_categories |-> { <<3, 2>> },
            user_manhwa_progress |-> {}] }

InitSync ==
    /\ InitIdle
    /\ mode = "sync_all"
    /\ phase = "genres"
    /\ pc = "idle"
    /\ data = << >>
    /\ fk_on_delete \in {"cascade", "restrict"}
    /\ progress_key = "unique"
    /\ files \in FilePool
    /\ next_id = [t \in AllTables |-> FirstFreeId]
    /\ \E st \in SyncStores :
          /\ tables = st.tables
          /\ manhwas = st.manhwas
          /\ manhwa_genres = st.manhwa_genres
          /\ manhwa_categories = st.manhwa_categories
          /\ user_manhwa_progress = st.user_manhwa_progress

NextSync ==
    \/ \E snapshot \in SnapshotPool : sync_all(snapshot)
    \/ sync_ref
    \/ sync_items_begin
    \/ sync_items_insert
    \/ sync_items_upsert
    \/ sync_items_delete
    \/ sync_manhwas_begin
    \/ sync_manhwas_insert
    \/ sync_manhwas_upsert
    \/ bulk_link_begin
    \/ bulk_link_genres
    \/ bulk_link_categories
    \/ sync_manhwas_delete
    \/ store_fails

SpecSync == InitSync /\ [][NextSync]_vars

----------------------------------------------------------------------------
(* SpecQuery : GET /manhwas requests answered on a synchronised store      *)

CatalogRow(id, name, synopsis, year, chapters, cmin, cmax) ==
    [id |-> id, name |-> name, synopsis |-> synopsis, year_released |-> year,
     chapters |-> chapters, chapter_min |-> cmin, chapter_max |-> cmax,
     status_id |-> Some(1), rating_id |-> Some(1), image_url |-> None]

QueryTables ==
    [genres |-> { RefRow(1, <<"a">>, <<"x">>), RefRow(2, <<"b">>, <<"y">>) },
     categories |-> { RefRow(1, <<"a">>, <<"x">>), RefRow(2, <<"b">>, <<"y">>) },
     rating |-> { RefRow(1, <<"g">>, <<"x">>) },
     status |-> { RefRow(1, <<"o">>, <<"x">>) }]

QueryCatalog ==
    { CatalogRow(1, <<"n">>, <<"s">>, 20, <<"7", "5">>, 75, None),
      CatalogRow(2, <<"m">>, <<"s">>, 20, <<"7", "5">>, 75, None),
      CatalogRow(3, <<"m">>, <<"z">>, 20, <<"7", "5">>, 75, None),
      CatalogRow(4, <<"a">>, <<"s">>, 20, <<"7", "5">>, 75, None),
      CatalogRow(5, <<"b">>, <<"s">>, 21, LessThan \o <<" ", "5", "0">>, 0, Some(100)),
      CatalogRow(6, <<"c">>, <<"s">>, 20, <<"7", "5">>, 75, None) }

\* entry 1 has genre a only, entries 2 and 4 have a and b, entry 6 has no link
QueryGenreLinks == { <<1, 1>>, <<2, 1>>, <<2, 2>>, <<3, 2>>, <<4, 1>>, <<4, 2>>, <<5, 1>> }
QueryCategoryLinks == { <<1, 1>>, <<2, 1>>, <<3, 2>>, <<4, 1>>, <<4, 2>>, <<5, 2>> }

\* the catalogs queried : the whole of it, or its first three entries
QueryStores == { {1, 2, 3, 4, 5, 6}, {1, 2, 3} }

GenreFilters == { None, Some(<<<<"a">>>>), Some(<<<<"a">>, <<"b">>>>),
                  Some(<<<<"a">>, <<"z">>>>) }
CategoryFilters == { None, Some(<<<<"b">>>>), Some(<<<<"c">>, <<"z">>>>) }
StatusFilters == { None, Some(<<<<"o">>>>), Some(<<<<"z">>>>) }
PerPages == { 0, 1, 2, 100, 101 }
MinChapterFilters == { None, Some(75) }
MaxChapterFilters == { None, Some(0), Some(100) }
MaxYearFilters == { None, Some(0), Some(20) }

Requests ==
    [genres : GenreFilters, categories : CategoryFilters, status : StatusFilters,
     ratings : {None}, min_chapters : MinChapterFilters,
     max_chapters : MaxChapterFilters,
     min_year_released : {None}, max_year_released : MaxYearFilters,
     page : 0..MaxPage, per_page : PerPages]

InitQuery ==
    /\ InitIdle
    /\ mode = "query"
    /\ phase = "genres"
    /\ pc = "serving"
    /\ data = << >>
    /\ fk_on_delete = "cascade"
    /\ files = [t \in RefTables |-> None]
    /\ tables = QueryTables
    /\ next_id = [t \in AllTables |-> 7]
    /\ \E ids \in QueryStores :
          /\ manhwas = { r \in QueryCatalog : r.id \in ids }
          /\ manhwa_genres = { l \in QueryGenreLinks : l[1] \in ids }
          /\ manhwa_categories = { l \in QueryCategoryLinks : l[1] \in ids }
    /\ user_manhwa_progress = {}
    /\ progress_key = "unique"

NextQuery == \E req \in Requests : get_manhwas(req)

SpecQuery == InitQuery /\ [][NextQuery]_vars

----------------------------------------------------------------------------
(* SpecManhwas : one call sync_manhwas(master_list) on a synchronised      *)
(* store, the chapters texts of the rows made of one or two tokens, one    *)
(* row with a year that is no number                                       *)

ChapterTokens == { LessThan, MoreThan, <<" ", "5">>, <<"7", "5">> }
ChapterTexts == ChapterTokens \cup { a \o b : a, b \in ChapterTokens }

ManhwaRows ==
    { Master(<<"m">>, c, <<"a">>, <<"a">>) : c \in ChapterTexts }
        \cup { Master(<<"n">>, <<"7", "5">>, <<"a">>, <<"a">>),
               [Master(<<"o">>, <<"7", "5">>, <<"a">>, <<"a">>)
                  EXCEPT !.YearReleased = <<"2", "x">>] }

InitManhwas ==
    /\ InitLocals
    /\ sheet = NoFetch
    /\ \E d \in SeqsUpTo(ManhwaRows, MaxRows) : all_data = Snapshot(RefV1, d)
    /\ mode = "sync_manhwas"
    /\ phase = "manhwas"
    /\ pc = "phase_begin"
    /\ data = << >>
    /\ fk_on_delete = "cascade"
    /\ progress_key = "unique"
    /\ files = [t \in RefTables |-> None]
    /\ next_id = [t \in AllTables |-> FirstFreeId]
    /\ tables = SyncedTables
    /\ manhwas = { StoredEntry(1, M1, SyncedTables) }
    /\ manhwa_genres = { <<1, 1>>, <<1, 2>> }
    /\ manhwa_categories = { <<1, 1>> }
    /\ user_manhwa_progress = {}

NextManhwas ==
    \/ sync_manhwas_begin
    \/ sync_manhwas_insert
    \/ sync_manhwas_upsert
    \/ bulk_link_begin
    \/ bulk_link_genres
    \/ bulk_link_categories
    \/ sync_manhwas_delete
    \/ store_fails

SpecManhwas == InitManhwas /\ [][NextManhwas]_vars

----------------------------------------------------------------------------
(* The page loop of get_all_records and of sync_manhwas, one request a step *)

\* .select("id, name") on a reference table, .select("id, name, synopsis")
\* on manhwas
selected(table) ==
    IF table = "manhwas" THEN select_id_name_synopsis(manhwas)
    ELSE select_id_name(tables[table])

\* db_records = {} ; page = 1 ; the pages have the size the call is made with
page_loop_begin(table, size) ==
    /\ pc \in {"idle", "paged", "failed"}
    /\ pager' = [NoPager EXCEPT !.table = table, !.size = size]
    /\ pc' = "paging"
    /\ err' = << >>
    /\ UNCHANGED <<store_vars, fk_on_delete, files, all_data, mode, phase, data,
                   local_vars, calls, started, run, failures, prev, query_vars,
                   progress_vars, trigger, waiting, sheet, job>>

\* one pass of while True : the request of page `page` ; an empty page ends
\* the loop, the rows of any other page are recorded and page += 1.  A
\* failure of the request is raised as DatabaseError.
fetch_page ==
    /\ pc = "paging"
    /\ \/ LET existing_db_data == range(selected(pager.table),
                                        (pager.page - 1) * pager.size,
                                        pager.page * pager.size - 1)
          IN  /\ IF existing_db_data = << >>
                 THEN /\ pc' = "paged"
                      /\ pager' = [pager EXCEPT !.pages = Append(@, existing_db_data)]
                 ELSE /\ pc' = "paging"
                      /\ pager' = [pager EXCEPT
                                     !.pages = Append(@, existing_db_data),
                                     !.db_records = put_rows(@, existing_db_data),
                                     !.page = @ + 1]
              /\ UNCHANGED <<err, failures>>
       \/ /\ failures < MaxFailures
          /\ failures' = failures + 1
          /\ pc' = "failed"
          /\ err' = <<"Failed to fetch records", StoreUnavailable>>
          /\ UNCHANGED pager
    /\ UNCHANGED <<store_vars, fk_on_delete, files, all_data, mode, phase, data,
                   local_vars, calls, started, run, prev, query_vars,
                   progress_vars, trigger, waiting, sheet, job>>

----------------------------------------------------------------------------
(* SpecPages : the page loop on tables of up to MaxRows + 2 rows, with pages *)
(* of 1 to MaxRows rows ; a loop that has begun goes on until it ends        *)

PageSizes == 1..MaxRows
\* tables of 0 to MaxRows + 2 rows, one of them with an id left out ; the
\* rows of odd id have one key, those of even id another
PagedIdSets == { 1..n : n \in 0..(MaxRows + 2) } \cup { {1, 3, 4} }
PagedTables ==
    { { RefRow(id, IF id % 2 = 1 THEN <<"a">> ELSE <<"b">>, <<"x">>) : id \in ids } :
        ids \in PagedIdSets }
PagedCatalogs ==
    { { StoredEntry(id, IF id % 2 = 1 THEN M1 ELSE M2, SyncedTables) : id \in ids } :
        ids \in PagedIdSets \ { {} } }

InitPages ==
    /\ InitIdle
    /\ mode = "sync_all"
    /\ phase = "genres"
    /\ pc = "idle"
    /\ data = << >>
    /\ fk_on_delete = "cascade"
    /\ progress_key = "unique"
    /\ files = [t \in RefTables |-> None]
    /\ next_id = [t \in AllTables |-> MaxRows + 3]
    /\ \/ /\ \E T \in PagedTables : tables = [SyncedTables EXCEPT !["genres"] = T]
          /\ manhwas = {}
       \/ /\ tables = SyncedTables
          /\ manhwas \in PagedCatalogs
    /\ manhwa_genres = {}
    /\ manhwa_categories = {}
    /\ user_manhwa_progress = {}

PageLoop == fetch_page

NextPages ==
    \/ \E table \in {"genres", "manhwas"} : \E size \in PageSizes :
          page_loop_begin(table, size)
    \/ fetch_page

SpecPages == InitPages /\ [][NextPages]_vars /\ WF_vars(PageLoop)

----------------------------------------------------------------------------
(* SpecLinks : one call sync_manhwas(master_list) whose rows name genres    *)
(* and categories that are stored, renamed, padded or unknown              *)

LinkTables ==
    { [SyncedTables EXCEPT !["categories"] = C] :
        C \in { { RefRow(1, <<"a">>, <<"x">>), RefRow(2, Dungeon_Tower, <<"x">>) },
                { RefRow(1, <<"a">>, <<"x">>) },
                { RefRow(1, <<"a">>, <<"x">>), RefRow(2, Dungeon_Tower, <<"x">>),
                  RefRow(3, Dungeon_Towers, <<"x">>) } } }

GenreTexts == { <<"a", ",", " ", "b">>, <<"z", ",", " ", "b">>, <<"a", ",", " ", " ", "b">> }
CategoryTexts == { <<"a">>, Dungeon_Towers \o CommaSpace \o <<"a">>,
                   <<"z">> \o CommaSpace \o Dungeon_Towers,
                   Multiple_Protagonists \o CommaSpace \o <<" ", "a", " ">> }
LinkRows == { Master(t, <<"7", "5">>, g, c) :
                t \in { <<"m">>, <<"n">> }, g \in GenreTexts, c \in CategoryTexts }

InitLinks ==
    /\ InitLocals
    /\ sheet = NoFetch
    /\ \E d \in SeqsUpTo(LinkRows, MaxRows) : all_data = Snapshot(RefV1, d)
    /\ mode = "sync_manhwas"
    /\ phase = "manhwas"
    /\ pc = "phase_begin"
    /\ data = << >>
    /\ fk_on_delete = "cascade"
    /\ progress_key = "unique"
    /\ files = [t \in RefTables |-> None]
    /\ next_id = [t \in AllTables |-> FirstFreeId]
    /\ tables \in LinkTables
    /\ manhwas = { StoredEntry(1, M1, SyncedTables) }
    /\ manhwa_genres = {}
    /\ manhwa_categories = {}
    /\ user_manhwa_progress = {}

NextLinks ==
    \/ sync_manhwas_begin
    \/ sync_manhwas_insert
    \/ sync_manhwas_upsert
    \/ bulk_link_begin
    \/ bulk_link_genres
    \/ bulk_link_categories
    \/ sync_manhwas_delete
    \/ store_fails

SpecLinks == InitLinks /\ [][NextLinks]_vars

----------------------------------------------------------------------------
(* SpecTrigger : requests to the three routes of routers/sync.py, with any *)
(* key, and the background tasks they schedule, one after the other        *)

ApiKeys == { None, Some("x"), Some(SYNC_API_KEY) }
TriggerSnapshots == { Snapshot(RefV1, <<M1>>), Snapshot(RefV2, <<M2>>) }

InitTrigger ==
    /\ InitIdle
    /\ mode = "sync_all"
    /\ phase = "genres"
    /\ pc = "idle"
    /\ data = << >>
    /\ fk_on_delete = "cascade"
    /\ progress_key = "unique"
    /\ files = DataFiles(RefV1, RefTables)
    /\ next_id = [t \in AllTables |-> FirstFreeId]
    /\ tables = SyncedTables
    /\ manhwas = { StoredEntry(1, M1, SyncedTables) }
    /\ manhwa_genres = { <<1, 1>>, <<1, 2>> }
    /\ manhwa_categories = { <<1, 1>> }
    /\ user_manhwa_progress = {}

NextTrigger ==
    \/ \E k \in ApiKeys : sync(k)
    \/ \E k \in ApiKeys : sync_missing_images(k)
    \/ \E k \in ApiKeys : sync_all_images(k)
    \/ fetch_all_fails
    \/ \E snapshot \in TriggerSnapshots : sync_all(snapshot)
    \/ image_task
    \/ image_page
    \/ fetch_image
    \/ update_image_url
    \/ sync_ref
    \/ sync_items_begin
    \/ sync_items_insert
    \/ sync_items_upsert
    \/ sync_items_delete
    \/ sync_manhwas_begin
    \/ sync_manhwas_insert
    \/ sync_manhwas_upsert
    \/ bulk_link_begin
    \/ bulk_link_genres
    \/ bulk_link_categories
    \/ sync_manhwas_delete
    \/ store_fails

SpecTrigger == InitTrigger /\ [][NextTrigger]_vars

----------------------------------------------------------------------------
(* SpecRace : two sync_all runs side by side, on a store that is empty or  *)
(* holds the catalog of an earlier run ; every call to the store succeeds  *)

RaceSnapshots == { Snapshot(RefV1, <<M1>>) }
RaceStores == { st \in SyncStores : st.tables \in { [t \in RefTables |-> {}],
                                                    SyncedTables } }

InitRace ==
    /\ InitIdle
    /\ mode = "sync_all"
    /\ phase = "genres"
    /\ pc = "idle"
    /\ data = << >>
    /\ fk_on_delete = "cascade"
    /\ progress_key = "unique"
    /\ files = DataFiles(RefV1, RefTables)
    /\ next_id = [t \in AllTables |-> FirstFreeId]
    /\ \E st \in RaceStores :
          /\ tables = st.tables
          /\ manhwas = st.manhwas
          /\ manhwa_genres = st.manhwa_genres
          /\ manhwa_categories = st.manhwa_categories
          /\ user_manhwa_progress = st.user_manhwa_progress

NextRace ==
    \/ \E snapshot \in RaceSnapshots : sync_all(snapshot)
    \/ switch
    \/ sync_ref
    \/ sync_items_begin
    \/ sync_items_insert
    \/ sync_items_upsert
    \/ sync_items_delete
    \/ sync_manhwas_begin
    \/ sync_manhwas_insert
    \/ sync_manhwas_upsert
    \/ bulk_link_begin
    \/ bulk_link_genres
    \/ bulk_link_categories
    \/ sync_manhwas_delete

SpecRace == InitRace /\ [][NextRace]_vars

----------------------------------------------------------------------------
(* SpecColumns : one fetch_data call on a column specification             *)

MaxLen == 4    \* longest column specification, in characters
ColumnChars == {"1", "3", ",", ":", " ", "x"}
ColumnExamples == { <<"3", ",", " ", "5">>, <<"0", ":", "9">>, <<"3", ":", "4">>,
                    <<"1", ":", "3", ",", "2">> }
ColumnStrings == SeqsUpTo(ColumnChars, MaxLen) \cup ColumnExamples

InitColumns ==
    /\ InitLocals
    /\ all_data = NoData
    /\ mode = "fetch_data"
    /\ phase = "genres"
    /\ pc = "idle"
    /\ data = << >>
    /\ fk_on_delete = "cascade"
    /\ progress_key = "unique"
    /\ files = DataFiles(RefV1, RefTables)
    /\ next_id = [t \in AllTables |-> FirstFreeId]
    /\ tables = [t \in RefTables |-> {}]
    /\ manhwas = {}
    /\ manhwa_genres = {}
    /\ manhwa_categories = {}
    /\ user_manhwa_progress = {}
    /\ \E s \in ColumnStrings : sheet = [NoFetch EXCEPT !.column_string = s]

NextColumns == fetch_data

SpecColumns == InitColumns /\ [][NextColumns]_vars

----------------------------------------------------------------------------
(* SpecImages : image jobs scheduled by authorized requests, on a catalog   *)
(* some of whose rows have an image ; every lookup and every update may    *)
(* fail.  A scheduled task is run, and runs on until it ends.              *)

ImageRoutes == {"sync_missing_images", "sync_all_images"}
\* entries 2 and 3 have the same name, entry 6 has no link
ImageStores == { {}, {1}, {1, 2}, {2, 3, 6}, {1, 2, 6} }

InitImages ==
    /\ InitIdle
    /\ mode = "sync_all"
    /\ phase = "genres"
    /\ pc = "idle"
    /\ data = << >>
    /\ fk_on_delete = "cascade"
    /\ files = [t \in RefTables |-> None]
    /\ tables = QueryTables
    /\ next_id = [t \in AllTables |-> 7]
    /\ \E ids \in ImageStores : \E imaged \in SUBSET ids :
          /\ manhwas = { IF r.id \in imaged
                         THEN [r EXCEPT !.image_url = Some("old")]
                         ELSE r : r \in { x \in QueryCatalog : x.id \in ids } }
          /\ manhwa_genres = { l \in QueryGenreLinks : l[1] \in ids }
          /\ manhwa_categories = { l \in QueryCategoryLinks : l[1] \in ids }
    /\ user_manhwa_progress = {}
    /\ progress_key = "unique"

\* the steps of a scheduled task
ImageJob ==
    \/ image_task
    \/ image_page
    \/ fetch_image
    \/ update_image_url

NextImages ==
    \/ \E k \in ApiKeys : sync_missing_images(k)
    \/ \E k \in ApiKeys : sync_all_images(k)
    \/ image_task
    \/ image_page
    \/ fetch_image
    \/ update_image_url

SpecImages == InitImages /\ [][NextImages]_vars /\ WF_vars(ImageJob)

----------------------------------------------------------------------------
(* SpecProgress : up to MaxRequests progress requests served concurrently  *)

TokenPool == { None, Some(<<"1">>), Some(Bearer \o <<"x">>), Some(Bearer \o <<"1">>) }
ProgressOps == {"add", "update", "get"}
\* a manhwa of the catalog, and an id no manhwa has
ProgressManhwaIds == {1, 9}

InitProgress ==
    /\ InitIdle
    /\ mode = "progress"
    /\ phase = "genres"
    /\ pc = "idle"
    /\ data = << >>
    /\ fk_on_delete = "cascade"
    /\ files = [t \in RefTables |-> None]
    /\ tables = QueryTables
    /\ next_id = [t \in AllTables |-> 7]
    /\ manhwas = { r \in QueryCatalog : r.id \in {1, 2} }
    /\ manhwa_genres = { l \in QueryGenreLinks : l[1] \in {1, 2} }
    /\ manhwa_categories = { l \in QueryCategoryLinks : l[1] \in {1, 2} }
    /\ user_manhwa_progress = {}
    /\ progress_key \in {"unique", "none"}

NextProgress ==
    \/ \E op \in ProgressOps, t \in TokenPool, m \in ProgressManhwaIds :
          progress_request(op, t, m, Len(reqs) + 1)
    \/ \E s \in 1..MaxRequests : add_progress_select(s)
    \/ \E s \in 1..MaxRequests : add_progress_insert(s)
    \/ \E s \in 1..MaxRequests : update_progress(s)
    \/ \E s \in 1..MaxRequests : get_user_progress(s)

SpecProgress == InitProgress /\ [][NextProgress]_vars

----------------------------------------------------------------------------
(* Properties of the synchronisation *)

Keys(rows) == { r.name : r \in rows }
SourceKeys(d) == { strip(d[i].Key) : i \in 1..Len(d) }
MasterKey(entry) == <<strip(entry.Title), strip(entry.Synopsis)>>
MasterKeys(d) == { MasterKey(d[i]) : i \in 1..Len(d) }
RowKey(r) == <<r.name, r.synopsis>>
Tokens(text) == { strip(t) : t \in Range(split(text, CommaSpace)) } \ { << >> }
IdsNamed(rows, names) == { r.id : r \in { x \in rows : x.name \in names } }
LinkedTo(links, manhwa_id) == { l[2] : l \in { x \in links : x[1] = manhwa_id } }
IsPrefix(s, t) == Len(s) <= Len(t) /\ SubSeq(t, 1, Len(s)) = s
NoDuplicateRow(rows) == \A x, y \in rows : RowKey(x) = RowKey(y) => x.id = y.id
NoRepeatedKey(d) == \A i, j \in 1..Len(d) : MasterKey(d[i]) = MasterKey(d[j]) => i = j

\* C1: when sync_items(T, S, map) has ended without a failure of the store,
\* the set of names stored in T is the set of trimmed key values of S, for
\* every S, the empty list included.
C1_KeySetEqualsSource ==
    (pc \in {"done", "failed"} /\ failures = 0)
        => Keys(tables["genres"]) = SourceKeys(data)

\* C2: after a successful sync run over a snapshot (without repeated keys,
\* on a catalog without two rows of one key), the genre links and the
\* category links of every catalog entry of the snapshot are exactly the ids
\* its source row names: no stale link is left.
C2_LinksEqualSnapshot ==
    (pc = "done" /\ NoRepeatedKey(all_data.master_list) /\ NoDuplicateRow(manhwas))
        => \A r \in manhwas : \A i \in 1..Len(all_data.master_list) :
              LET entry == all_data.master_list[i]
              IN  MasterKey(entry) = RowKey(r)
                    => /\ LinkedTo(manhwa_genres, r.id)
                            = IdsNamed(tables["genres"], Tokens(entry.Genres))
                       /\ LinkedTo(manhwa_categories, r.id)
                            = IdsNamed(tables["categories"], Tokens(entry.Categories))

\* C3: a successful run that follows a successful run over the same snapshot
\* (the data files being the same too) issues no insert, no upsert and no
\* delete carrying rows.
C3_SecondRunWritesNothing ==
    (pc = "done" /\ run >= 2 /\ prev.pc = "done" /\ prev.all_data = all_data)
        => calls = << >>

\* C4: after a successful run, no catalog row that was stored when the run
\* began and whose key is absent from the run's snapshot is still in the
\* manhwas table, and no link row refers to its id.
C4_AbsentEntryRemoved ==
    pc = "done"
        => \A r \in prev.store.manhwas :
              RowKey(r) \notin MasterKeys(all_data.master_list)
                => /\ \A x \in manhwas : RowKey(x) # RowKey(r)
                   /\ LinkedTo(manhwa_genres, r.id) = {}
                   /\ LinkedTo(manhwa_categories, r.id) = {}

\* C5: sync_all starts its phases in the order genres, categories, rating,
\* status, manhwas; when a phase fails it is the last phase started, the
\* error is a DatabaseError chain "Failed to sync all data: <phase message>
\* ...", and every reference phase completed before it has left its table
\* equal to its source.
C5_PhasesInOrderAbortOnFailure ==
    /\ IsPrefix(started, PhaseOrder)
    /\ pc \notin {"idle", "done", "failed", "phase_begin"}
         => started # << >> /\ phase = started[Len(started)]
    /\ pc = "failed"
         => /\ started # << >>
            /\ phase = started[Len(started)]
            /\ Len(err) >= 2
            /\ err[1] = "Failed to sync all data"
            /\ err[2] = PhaseMsg[phase]
            /\ \A i \in 1..(Len(started) - 1) :
                  Keys(tables[started[i]]) = SourceKeys(AsValue(files[started[i]]))

\* a phase failed after earlier phases had written to the store
C5_Witness ==
    /\ pc = "failed"
    /\ Len(started) >= 3
    /\ calls # << >>
    /\ tables["genres"] # prev.store.tables["genres"]

\* C6: after a successful sync_all(snapshot), every reference table holds
\* the keys of the slice of that name of the snapshot passed in.
C6_TablesReflectSnapshotSlices ==
    pc = "done"
        => \A t \in RefTables : Keys(tables[t]) = SourceKeys(all_data[t])

----------------------------------------------------------------------------
(* Properties of the catalog query *)

NamesGiven(filter) == IF Truthy(filter) THEN Range(AsValue(filter)) ELSE {}

\* C7: every entry returned for a multi-valued genre (category) filter is
\* linked to all of the listed genres (categories).
C7_LinkedToAllListed ==
    response.kind = "ok"
        => \A i \in 1..Len(response.data) :
              /\ IdsNamed(tables["genres"], NamesGiven(request.genres))
                    \subseteq LinkedTo(manhwa_genres, response.data[i].id)
              /\ IdsNamed(tables["categories"], NamesGiven(request.categories))
                    \subseteq LinkedTo(manhwa_categories, response.data[i].id)

InvalidGiven(req) ==
    [invalid_genres |-> NamesGiven(req.genres) \ Keys(tables["genres"]),
     invalid_categories |-> NamesGiven(req.categories) \ Keys(tables["categories"]),
     invalid_statuses |-> NamesGiven(req.status) \ Keys(tables["status"]),
     invalid_ratings |-> NamesGiven(req.ratings) \ Keys(tables["rating"])]

\* C8: a request with valid pagination that names a genre, category, status
\* or rating not in the reference tables is answered with a ValidationError
\* (HTTP 400) whose details list every invalid value by filter kind.
C8_InvalidFilterIsValidationError ==
    (/\ request # NoRequest
     /\ request.page >= 1 /\ request.per_page \in 1..100
     /\ \E k \in DOMAIN InvalidGiven(request) : InvalidGiven(request)[k] # {})
        => /\ response.kind = "error"
           /\ response.error = "ValidationError"
           /\ response.status_code = 400
           /\ \A k \in DOMAIN InvalidGiven(request) :
                 InvalidGiven(request)[k] # {}
                    => /\ k \in DOMAIN response.details
                       /\ response.details[k] = InvalidGiven(request)[k]

\* the least k with k * per_page >= n
CeilDiv(n, per_page) == CHOOSE k \in 0..n : k * per_page >= n /\ (k - 1) * per_page < n

Min(a, b) == IF a < b THEN a ELSE b

\* C9: an answered query returns the rows at the 1-based positions
\* (page-1)*per_page+1 .. min(page*per_page, N) of the N matching rows in
\* ascending order of name, with pagination.total = N and
\* pagination.pages = ceil(N / per_page).
C9_PageOfSortedMatches ==
    response.kind = "ok"
        => LET N == Cardinality(matching(request))
               first == (request.page - 1) * request.per_page + 1
               last == Min(request.page * request.per_page, N)
           IN  /\ \E o \in OrderedByName(matching(request)) :
                     /\ Len(response.data) = (IF last >= first THEN last - first + 1 ELSE 0)
                     /\ \A i \in 1..Len(response.data) :
                           response.data[i].id = o[first + i - 1].id
               /\ \A i, j \in 1..Len(response.data) :
                     i < j => StrLeq(response.data[i].name, response.data[j].name)
               /\ response.pagination.total = N
               /\ response.pagination.pages = CeilDiv(N, request.per_page)

\* the second page of two rows out of five matches : rows 3-4, three pages
C9_Witness ==
    /\ response.kind = "ok"
    /\ request.page = 2 /\ request.per_page = 2
    /\ response.pagination.total = 5
    /\ response.pagination.pages = 3
    /\ Len(response.data) = 2

\* C10: a request with page < 1, per_page < 1 or per_page > 100 is answered
\* with a ValidationError and no query has been issued to the store.
C10_BadPaginationRejectedFirst ==
    (/\ request # NoRequest
     /\ (request.page < 1 \/ request.per_page < 1 \/ request.per_page > 100))
        => /\ response.kind = "error"
           /\ response.error = "ValidationError"
           /\ response.status_code = 400
           /\ store_queries = 0

\* page 1 with 101 rows a page, and an invalid genre on top, has been rejected
C10_Witness ==
    /\ request # NoRequest
    /\ request.page = 1 /\ request.per_page = 101
    /\ Truthy(request.genres)
    /\ response.kind = "error"
    /\ store_queries = 0

----------------------------------------------------------------------------
(* Numeric filters of GET /manhwas *)

\* the bound b, when supplied, is respected by the value v
AtLeast(v, b) == b # None => v >= AsValue(b)
AtMost(v, b) == b # None => v <= AsValue(b)

\* the entries whose chapters text is a plain integer and that carry a genre
\* and a category link
CountedEntries ==
    { r \in manhwas : /\ int(r.chapters) # None
                      /\ LinkedTo(manhwa_genres, r.id) # {}
                      /\ LinkedTo(manhwa_categories, r.id) # {} }

ReturnedIds == { response.data[i].id : i \in 1..Len(response.data) }

\* C11: with no name filter and the whole result on one page, an entry with
\* a plain integer chapters text is returned iff its chapter count and its
\* release year lie within the supplied bounds, both ends inclusive ; a
\* supplied bound of 0 restricts, an omitted bound does not.
C11_NumericBoundsInclusive ==
    (/\ response.kind = "ok"
     /\ request.page = 1 /\ request.per_page = 100
     /\ request.genres = None /\ request.categories = None
     /\ request.status = None /\ request.ratings = None)
        => \A r \in CountedEntries :
              r.id \in ReturnedIds
                <=> /\ AtLeast(AsValue(int(r.chapters)), request.min_chapters)
                    /\ AtMost(AsValue(int(r.chapters)), request.max_chapters)
                    /\ AtLeast(r.year_released, request.min_year_released)
                    /\ AtMost(r.year_released, request.max_year_released)

----------------------------------------------------------------------------
(* Progress rows *)

\* C12: the progress table holds at most one row per (user_id, manhwa_id).
C12_OneRowPerUserAndManhwa ==
    \A x, y \in user_manhwa_progress :
        (x.user_id = y.user_id /\ x.manhwa_id = y.manhwa_id) => x = y

\* the header carries no token, or one that is not "Bearer <token>", or
\* one the auth service does not know
BadToken(auth_token) ==
    \/ ~Truthy(auth_token)
    \/ ~IsPrefix(Bearer, AsValue(auth_token))
    \/ get_user(SubSeq(AsValue(auth_token), Len(Bearer) + 1, Len(AsValue(auth_token)))) = None

\* C20: a progress request with a missing, malformed, invalid or expired
\* token is answered with an AuthenticationError (HTTP 401) and writes
\* nothing to the progress table.
C20_BadTokenIsAuthenticationError ==
    \A s \in DOMAIN reqs :
        (reqs[s].pc = "done" /\ BadToken(reqs[s].auth_token))
            => /\ reqs[s].response.kind = "error"
               /\ reqs[s].response.error = "AuthenticationError"
               /\ reqs[s].response.status_code = 401
               /\ ~reqs[s].wrote

----------------------------------------------------------------------------
(* Chapter derivation *)

PlainInteger(text) == ~Contains(LessThan, text) /\ ~Contains(MoreThan, text) /\ int(text) # None

\* C14: every stored row has (chapter_min, chapter_max) = (0, 100) when its
\* chapters text begins with "Less than", (100, null) when it begins with
\* "More than", and (n, null) when it is the plain integer n.
C14_ChapterBoundsFromText ==
    pc = "done" =>
        \A r \in manhwas :
            /\ IsPrefix(LessThan, r.chapters)
                  => r.chapter_min = 0 /\ r.chapter_max = Some(100)
            /\ IsPrefix(MoreThan, r.chapters)
                  => r.chapter_min = 100 /\ r.chapter_max = None
            /\ PlainInteger(r.chapters)
                  => r.chapter_min = AsValue(int(r.chapters)) /\ r.chapter_max = None

----------------------------------------------------------------------------
(* Status and rating of the stored rows *)

\* the id the name resolves to in the table, null when no row has that name
Resolved(rows, name) ==
    IF \E x \in rows : x.name = name
    THEN Some((CHOOSE x \in rows : x.name = name).id)
    ELSE None

\* C15: the status and rating maps are loaded after the four reference
\* phases of the run ; a source row whose Status or Rating name is not in them
\* is written with a null status_id (rating_id) and does not make the run
\* fail ; every other row carries the id of the row of that name.
C15_UnresolvedNamesStoredAsNull ==
    /\ pc \in {"manhwas_insert", "manhwas_upsert", "link_begin", "link_genres",
                "link_categories", "manhwas_delete"} => started = PhaseOrder
    /\ (pc = "failed" /\ started = PhaseOrder)
          => err[Len(err)] \in {StoreUnavailable, "violates foreign key constraint"}
    /\ (pc = "done" /\ NoRepeatedKey(all_data.master_list) /\ NoDuplicateRow(manhwas))
          => \A i \in 1..Len(all_data.master_list) :
                LET entry == all_data.master_list[i]
                IN  \E r \in manhwas :
                       /\ RowKey(r) = MasterKey(entry)
                       /\ r.status_id = Resolved(tables["status"], entry.Status)
                       /\ r.rating_id = Resolved(tables["rating"], entry.Rating)

C15_Witness ==
    /\ pc = "done"
    /\ \E i \in 1..Len(all_data.master_list) :
          LET entry == all_data.master_list[i]
          IN  /\ Resolved(tables["status"], entry.Status) = None
              /\ Resolved(tables["rating"], entry.Rating) = None
              /\ \E r \in manhwas : /\ RowKey(r) = MasterKey(entry)
                                    /\ r.status_id = None /\ r.rating_id = None

----------------------------------------------------------------------------
(* The routes of routers/sync.py *)

\* C16: a request to one of the three routes whose api_key header is missing
\* or differs from SYNC_API_KEY is answered with an AuthenticationError
\* (HTTP 401), schedules no background task and leaves the store as it is ;
\* a task is scheduled only by a request carrying the configured key.
C16_OnlyTheConfiguredKeyStartsARun ==
    [][/\ (trigger' # trigger /\ trigger'.api_key # Some(SYNC_API_KEY))
            => /\ trigger'.response.kind = "error"
               /\ trigger'.response.error = "AuthenticationError"
               /\ trigger'.response.status_code = 401
               /\ pc' = pc
               /\ run' = run
               /\ Store' = Store
               /\ user_manhwa_progress' = user_manhwa_progress
       /\ pc' \in {"scheduled", "image_scheduled"}
            => trigger'.api_key = Some(SYNC_API_KEY)]_vars

C16_Witness ==
    /\ trigger # NoRequest
    /\ trigger.api_key = Some("x")
    /\ trigger.route = "sync_all_images"
    /\ trigger.response.kind = "error"
    /\ pc = "done"

\* C17: the answer to an authorized POST /sync is the acknowledgment, and it
\* stays the answer while the background run is waiting, running, and after
\* it has succeeded, failed in the fetch or failed in a phase.
C17_AcknowledgedWhateverTheOutcome ==
    (trigger # NoRequest /\ trigger.route = "sync"
        /\ trigger.api_key = Some(SYNC_API_KEY))
      => /\ trigger.response =
               [kind |-> "ok", message |-> "Sync started", status |-> "processing"]
         /\ pc \in {"failed", "fetch_failed"} => err # << >>

C17_Witness ==
    /\ trigger # NoRequest
    /\ trigger.route = "sync"
    /\ trigger.response.kind = "ok"
    /\ pc = "failed"
    /\ started # << >>

----------------------------------------------------------------------------
(* Two runs side by side *)

\* the run has passed the insert of the phase it is in
PastInsert(c) ==
    c.pc \in {"items_upsert", "items_delete", "manhwas_upsert", "link_begin",
              "link_genres", "link_categories", "manhwas_delete", "done"}

\* the keys of the rows the run has queued for insert in that phase
QueuedKeys(c) ==
    IF c.phase = "manhwas"
    THEN { <<c.new_records[i].name, c.new_records[i].synopsis>> :
              i \in 1..Len(c.new_records) }
    ELSE { c.new_records[i].name : i \in 1..Len(c.new_records) }

\* the stored rows of the table of that phase that carry the key
StoredWithKey(t, k) ==
    IF t = "manhwas"
    THEN { r \in manhwas : <<r.name, r.synopsis>> = k }
    ELSE { r \in tables[t] : r.name = k }

\* C18: two runs are not kept apart : when both have loaded the rows of a
\* table before either has inserted, so that both have queued the same new
\* key, and both have passed their insert, the table holds two rows for
\* that key.
C18_BothRunsInsertTheNewKey ==
    (phase = waiting.phase /\ PastInsert(Context) /\ PastInsert(waiting))
      => \A k \in QueuedKeys(Context) \cap QueuedKeys(waiting) :
            Cardinality(StoredWithKey(phase, k)) >= 2

C18_Witness ==
    /\ pc = "done"
    /\ waiting.pc = "done"
    /\ QueuedKeys(Context) \cap QueuedKeys(waiting) # {}
    /\ \E x, y \in manhwas :
          x.id # y.id /\ x.name = y.name /\ x.synopsis = y.synopsis

----------------------------------------------------------------------------
(* The column specification *)

\* the text is an integer, blanks around it aside
IsInteger(t) ==
    LET u == strip(t)
        digits == IF u # << >> /\ Head(u) \in {"+", "-"} THEN Tail(u) ELSE u
    IN  digits # << >> /\ \A i \in 1..Len(digits) : IsDigit(digits[i])

\* the token is an integer or integer:integer
WellFormed(token) ==
    \/ IsInteger(token)
    \/ \E i \in 1..Len(token) :
          /\ token[i] = ":"
          /\ IsInteger(SubSeq(token, 1, i - 1))
          /\ IsInteger(SubSeq(token, i + 1, Len(token)))

\* the indices the token names : the integer, or the range with both ends
NamedBy(token) ==
    IF IsInteger(token) THEN { AsValue(int(token)) }
    ELSE LET i == CHOOSE i \in 1..Len(token) : token[i] = ":"
         IN  { n \in AsValue(int(SubSeq(token, 1, i - 1))) ..
                       AsValue(int(SubSeq(token, i + 1, Len(token)))) : TRUE }

\* C19: when every comma-separated token of the specification is an integer
\* or integer:integer, the parsed list is ascending, free of duplicates and
\* holds exactly the indices the tokens name, both ends of a range
\* included ; when a token is neither, fetch_data raises DatabaseError and
\* returns no records.
C19_ColumnsParsedOrFetchFails ==
    sheet.pc = "done" =>
        LET tokens == split(sheet.column_string, <<",">>)
        IN  IF \A i \in 1..Len(tokens) : WellFormed(tokens[i])
            THEN /\ sheet.selected_columns # None
                 /\ LET l == AsValue(sheet.selected_columns)
                    IN  /\ \A i \in 1..(Len(l) - 1) : l[i] < l[i + 1]
                        /\ { l[i] : i \in 1..Len(l) }
                              = UNION { NamedBy(tokens[j]) : j \in 1..Len(tokens) }
            ELSE /\ sheet.selected_columns = None
                 /\ sheet.result.kind = "DatabaseError"

C19_Witness ==
    /\ sheet.pc = "done"
    /\ sheet.column_string = <<"1", ":", "3", ",", "2">>
    /\ sheet.selected_columns = Some(<<1, 2, 3>>)
    /\ sheet.result.kind = "records"

----------------------------------------------------------------------------
(* The image jobs *)

\* the rows the job has to work on : for fetch_missing_images the rows that
\* had no image when it started, for fetch_all_images the rows get_manhwas
\* returns
JobItems ==
    IF job.route = "sync_missing_images"
    THEN { r.id : r \in { x \in manhwas : x.image_url = None } } \cup job.updated
    ELSE { r.id : r \in matching(NoFilters) }

----------------------------------------------------------------------------
(* Repeated keys in the master list *)

\* the positions of a queue at which a row of that key stands
QueuedAt(queue, k) == { i \in 1..Len(queue) : RowKey(queue[i]) = k }

\* C22: when the loop of sync_manhwas over the source rows has ended, every
\* key of the source stands once in the two queues together, with the data
\* of the first source row that carries it, whether the key was stored
\* before the run or not.
C22_OnlyFirstRowQueued ==
    (pc = "manhwas_insert" /\ phase = "manhwas")
      => \A k \in MasterKeys(data) :
            Cardinality(QueuedAt(new_records, k))
              + Cardinality(QueuedAt(updated_records, k)) = 1

\* C27: after a sync_manhwas run that has ended without error, on a catalog
\* that had one row per key, the manhwas table has no two rows of one
\* (name, synopsis) key.
C27_OneRowPerKeyAfterRun ==
    (pc = "done" /\ NoDuplicateRow(prev.store.manhwas)) => NoDuplicateRow(manhwas)

----------------------------------------------------------------------------
(* The fields of the reference rows *)

\* the first source row that carries the key
FirstWithKey(d, k) == d[CHOOSE i \in 1..Len(d) :
                           /\ strip(d[i].Key) = k
                           /\ \A j \in 1..(i - 1) : strip(d[j].Key) # k]

\* C23: when sync_items has completed, the description of every row of the
\* table is the trimmed description of the first source row that carries
\* the row's key, for the rows the run inserted and for those it found.
C23_DescriptionOfFirstSourceRow ==
    pc = "done" =>
        \A r \in tables["genres"] :
            /\ r.name \in SourceKeys(data)
            /\ r.description = strip(FirstWithKey(data, r.name).Description)

C23_Witness ==
    /\ pc = "done"
    /\ Len(data) = 2
    /\ strip(data[1].Key) = strip(data[2].Key)
    /\ strip(data[1].Description) # strip(data[2].Description)
    /\ data[1].Description # strip(data[1].Description)
    /\ \E i \in 1..Len(calls) : calls[i].op = "upsert"
    /\ tables["genres"] # {}

----------------------------------------------------------------------------
(* The order of the steps of sync_manhwas *)

\* the place of a write call in the order insert, upsert, relink, delete
StepRank(call) ==
    IF call.table = "manhwas"
    THEN (IF call.op = "insert" THEN 1 ELSE IF call.op = "upsert" THEN 2 ELSE 5)
    ELSE IF call.table = "manhwa_genres" THEN 3
    ELSE IF call.table = "manhwa_categories" THEN 4
    ELSE 0

\* the position a position of sync_manhwas is entered from
EnteredFrom ==
    [manhwas_upsert |-> "manhwas_insert", link_begin |-> "manhwas_upsert",
     link_genres |-> "link_begin", link_categories |-> "link_genres",
     manhwas_delete |-> "link_categories"]

\* C24: in a sync_manhwas run the write calls are issued in the order
\* insert, upsert, upsert of the genre links, upsert of the category links,
\* delete ; when relinking begins the id map holds the ids of the rows
\* inserted by this run ; the deletion is entered from the end of relinking
\* only, and no catalog row disappears at any other step.
C24_InsertUpsertRelinkThenDelete ==
    /\ [](\A i, j \in 1..Len(calls) :
             i < j => StepRank(calls[i]) <= StepRank(calls[j]))
    /\ [](pc = "link_begin" =>
             \A i \in 1..Len(new_records) :
                /\ RowKey(new_records[i]) \in DOMAIN db_records
                /\ \E r \in manhwas : /\ r.id = db_records[RowKey(new_records[i])]
                                       /\ RowKey(r) = RowKey(new_records[i]))
    /\ [][(pc' # pc /\ pc' \in DOMAIN EnteredFrom) => pc = EnteredFrom[pc']]_vars
    /\ [][(\E r \in manhwas : \A x \in manhwas' : x.id # r.id)
            => pc = "manhwas_delete"]_vars

C24_Witness ==
    /\ pc = "done"
    /\ \E i, j, k, l \in 1..Len(calls) :
          /\ calls[i] = [table |-> "manhwas", op |-> "insert"]
          /\ calls[j] = [table |-> "manhwas", op |-> "upsert"]
          /\ calls[k] = [table |-> "manhwa_genres", op |-> "upsert"]
          /\ calls[l] = [table |-> "manhwas", op |-> "delete"]

----------------------------------------------------------------------------
(* The relations of the catalog rows *)

\* the renamed categories : the old name and the name it stands for
Aliases == { <<Dungeon_Towers, Dungeon_Tower>>,
             <<Multiple_Protagonists, Multiple_Protagonist>> }

\* the source rows whose catalog row is in the id map
LinkedEntries == { i \in 1..Len(data) : MasterKey(data[i]) \in DOMAIN db_records }

\* the ids a genre token resolves to : it is looked up as it stands
GenreIdsOf(token) == IdsNamed(tables["genres"], {token})

\* the ids a category token resolves to : by its trimmed name, or else by
\* the name its trimmed name stands for
CategoryIdsOf(token) ==
    LET name == strip(token)
    IN  IF name = << >> THEN {}
        ELSE IF IdsNamed(tables["categories"], {name}) # {}
        THEN IdsNamed(tables["categories"], {name})
        ELSE UNION { IdsNamed(tables["categories"], {a[2]}) :
                        a \in { x \in Aliases : x[1] = name } }

GenrePairs ==
    UNION { { <<db_records[MasterKey(data[i])], gid>> :
                gid \in UNION { GenreIdsOf(t) :
                                  t \in Range(split(data[i].Genres, CommaSpace)) } } :
            i \in LinkedEntries }

CategoryPairs ==
    UNION { { <<db_records[MasterKey(data[i])], cid>> :
                cid \in UNION { CategoryIdsOf(t) :
                                  t \in Range(split(data[i].Categories, CommaSpace)) } } :
            i \in LinkedEntries }

\* C25: the pairs queued by bulk_link_manhwa_relations are those of every
\* token that resolves, a renamed category under the id of the name it
\* stands for ; a token that does not resolve queues nothing and does not
\* end the run, which fails in the linking only when the store fails ; when
\* the run is done every such pair is stored.
C25_AliasesResolvedUnknownSkipped ==
    /\ [](pc \in {"link_genres", "link_categories", "manhwas_delete"}
            => /\ Range(genre_records) = GenrePairs
               /\ Range(category_records) = CategoryPairs)
    /\ [](pc = "done" => /\ GenrePairs \subseteq manhwa_genres
                          /\ CategoryPairs \subseteq manhwa_categories)
    /\ [][(pc \in {"link_begin", "link_genres", "link_categories"} /\ pc' = "failed")
            => failures' = failures + 1]_vars

C25_Witness ==
    /\ pc = "done"
    /\ \E i \in LinkedEntries :
          /\ data[i].Categories = <<"z">> \o CommaSpace \o Dungeon_Towers
          /\ data[i].Genres = <<"z", ",", " ", "b">>
          /\ LinkedTo(manhwa_categories, db_records[MasterKey(data[i])])
                = IdsNamed(tables["categories"], {Dungeon_Tower})
          /\ IdsNamed(tables["categories"], {Dungeon_Towers}) = {}
          /\ IdsNamed(tables["categories"], {Dungeon_Tower}) # {}
          /\ LinkedTo(manhwa_genres, db_records[MasterKey(data[i])])
                = IdsNamed(tables["genres"], {<<"b">>})

----------------------------------------------------------------------------
(* The page loop *)

\* the rows the requests of the page loop have returned so far
RowsPaged == UNION { Range(pager.pages[i]) : i \in 1..Len(pager.pages) }

\* the requests a loop over n rows makes : one for every page that holds a
\* row, and the one that comes back empty
RequestsFor(n, size) == (n + size - 1) \div size + 1

----------------------------------------------------------------------------
(* Two runs over the same source *)

\* C28: when a successful run follows a successful run over the same
\* snapshot, the reference tables, the catalog and the link tables are what
\* they were when it began.
C28_SecondRunLeavesStore ==
    (pc = "done" /\ run >= 2 /\ prev.pc = "done" /\ prev.all_data = all_data)
        => Store = prev.store

----------------------------------------------------------------------------
(* The background task of POST /sync *)

\* C29: a fetch fails only in a scheduled task, before sync_all is called :
\* the step leaves the store, the run counter and the calls of the last run
\* as they are, and after it nothing is written and no run is started until
\* another request is answered ; once a request has been answered a run is
\* started only from a scheduled task, with a snapshot of all five sheets.
C29_FailedFetchWritesNothing ==
    /\ [][(pc' = "fetch_failed" /\ pc # "fetch_failed")
            => /\ pc = "scheduled"
               /\ Store' = Store
               /\ run' = run
               /\ calls' = calls
               /\ started' = started]_vars
    /\ [][pc = "fetch_failed"
            => /\ Store' = Store
               /\ run' = run
               /\ pc' # pc => trigger' # trigger \/ pc' \in {"scheduled", "image_scheduled"}]_vars
    /\ [][run' # run
            => /\ trigger # NoRequest => pc = "scheduled"
               /\ DOMAIN all_data'
                    = {"genres", "categories", "status", "rating", "master_list"}]_vars

\* the fetch of a later task fails after an earlier run has filled the store
C29_Witness ==
    /\ pc = "fetch_failed"
    /\ run >= 1
    /\ manhwas # {}
    /\ trigger.route = "sync"

----------------------------------------------------------------------------
(* The conversion of the catalog rows *)

\* the row cannot be converted : its year is no integer, or its chapters
\* text is no integer and names neither bound
Unconvertible(entry) ==
    \/ ~ IsInteger(entry.YearReleased)
    \/ /\ ~ Contains(LessThan, entry.Chapters)
       /\ ~ Contains(MoreThan, entry.Chapters)
       /\ ~ IsInteger(entry.Chapters)

\* C30: when a row of the source cannot be converted, the only step of
\* sync_manhwas is its failure with the DatabaseError of the manhwas phase :
\* the manhwas table and the link tables stay as they are and no insert,
\* upsert or delete is issued.
C30_UnconvertibleRowWritesNothing ==
    /\ [][(\E i \in 1..Len(all_data.master_list) :
              Unconvertible(all_data.master_list[i]))
            => /\ pc = "phase_begin"
               /\ pc' = "failed"
               /\ err'[1] = PhaseMsg["manhwas"]
               /\ Store' = Store
               /\ calls' = calls]_vars
    /\ []((pc = "failed" /\ calls = << >> /\ failures = 0)
            => \E i \in 1..Len(all_data.master_list) :
                  Unconvertible(all_data.master_list[i]))

\* a row that is new and can be converted comes before the one that cannot
C30_Witness ==
    /\ pc = "failed"
    /\ failures = 0
    /\ Len(all_data.master_list) = 2
    /\ ~ Unconvertible(all_data.master_list[1])
    /\ strip(all_data.master_list[1].Title) = <<"n">>
    /\ Unconvertible(all_data.master_list[2])
    /\ \A r \in manhwas : r.name # <<"n">>

====
